---- MODULE Spec2Model ----
(***************************************************************************)
(* A model of isclib: the Instance snapshot, its refresh from qlist        *)
(* output, the start/stop/wait-for-ready lifecycle, the privilege context  *)
(* and the code execution pipeline.                                        *)
(*                                                                         *)
(* Go strings are TLA+ strings, read character by character with Len and   *)
(* SubSeq.  A Go error is a record [nil, text]: nil = TRUE is the nil      *)
(* error, otherwise text is the text of Error().                           *)
(***************************************************************************)
EXTENDS Integers, Sequences, FiniteSets, TLC

(***************************************************************************)
(* Bounds of the model.                                                    *)
(***************************************************************************)
\* number of distinct temporary file names os.CreateTemp can hand out
MaxTmpFiles == 2
\* the count of re-queries of one WaitForReady call saturates here
MaxPolls == 2
\* number of UpdateFromQList calls in a row on one Instance
MaxUpdates == 1

(***************************************************************************)
(* The texts the model reads: the records the qlist tool can print and the *)
(* keys looked up in the parameters file.                                  *)
(***************************************************************************)
QlistRecords ==
    {"I^/d^1^down, last used x^c^1^2^3",
     "I^/d^1^Running, since y^c^1^2^3^ok^IRIS^^^/m",
     "I^/d^1^sign-on inhibited^c^1^2^3^warn",
     "I^/d^1^sign-on inhibited:primary transition, z^c^1^2^3^ok^Cache",
     "I^/d^1^running on node ? (cache.ids missing)^c^1^2^3^ok",
     "I^/d^1^starting^c^1^2^3^ok",
     "I^/d^1^running^c^1^x^3^ok",
     ""}

managerUserKey == "security_settings.manager_user"
managerGroupKey == "security_settings.manager_group"
ownerUserKey == "security_settings.cache_user"
ownerGroupKey == "security_settings.cache_group"
irisOwnerUserKey == "security_settings.iris_user"
irisOwnerGroupKey == "security_settings.iris_group"
productNameKey == "product_info.name"

(***************************************************************************)
(* A local variable of the code: With(x, LAMBDA v : e) is e with v naming  *)
(* the value of x, as in  v := x; e.  x is evaluated, once, before e.      *)
(***************************************************************************)
With(x, F(_)) == CHOOSE y \in {F(v) : v \in {x}} : TRUE

(***************************************************************************)
(* Strings.                                                                *)
(***************************************************************************)
Char(s, k) == SubSeq(s, k, k)

\* the text of s from position k to its end
From(s, k) == SubSeq(s, k, Len(s))

\* the position of the first occurrence of sub in s at or after k, 0 if none
RECURSIVE IndexFrom(_, _, _)
IndexFrom(s, sub, k) ==
    IF k + Len(sub) - 1 > Len(s) THEN 0
    ELSE IF SubSeq(s, k, k + Len(sub) - 1) = sub THEN k
    ELSE IndexFrom(s, sub, k + 1)

\* strings.Contains
Contains(s, sub) == IndexFrom(s, sub, 1) # 0

\* strings.Split(s, sep) for a non-empty separator, by scanning s
RECURSIVE SplitScan(_, _)
SplitScan(s, sep) ==
    LET k == IndexFrom(s, sep, 1)
    IN  IF k = 0 THEN <<s>>
        ELSE <<SubSeq(s, 1, k - 1)>> \o SplitScan(From(s, k + Len(sep)), sep)

\* The splits the model asks for again and again, scanned once.
SplitKnown ==
    {<<r, "^">> : r \in QlistRecords}
        \cup {<<k, ".">> : k \in {managerUserKey, managerGroupKey, productNameKey}}
SplitTable == [x \in SplitKnown |-> SplitScan(x[1], x[2])]

\* strings.Split(s, sep)
Split(s, sep) ==
    IF <<s, sep>> \in SplitKnown THEN SplitTable[<<s, sep>>] ELSE SplitScan(s, sep)

\* strings.SplitN(s, sep, 2): split at the first separator only
SplitN2(s, sep) ==
    LET k == IndexFrom(s, sep, 1)
    IN  IF k = 0 THEN <<s>>
        ELSE <<SubSeq(s, 1, k - 1), From(s, k + Len(sep))>>

UpperLetters == "ABCDEFGHIJKLMNOPQRSTUVWXYZ"
LowerLetters == "abcdefghijklmnopqrstuvwxyz"
UpperSet == {Char(UpperLetters, k) : k \in 1..Len(UpperLetters)}

\* strings.ToLower
RECURSIVE ToLower(_)
ToLower(s) ==
    IF s = "" THEN ""
    ELSE LET c == Char(s, 1)
         IN  (IF c \in UpperSet
              THEN Char(LowerLetters, IndexFrom(UpperLetters, c, 1)) ELSE c)
                 \o ToLower(From(s, 2))

IsSpace(c) == c \in {" ", "\t", "\n", "\r"}

RECURSIVE TrimLeft(_)
TrimLeft(s) ==
    IF s # "" /\ IsSpace(Char(s, 1)) THEN TrimLeft(From(s, 2)) ELSE s

RECURSIVE TrimRight(_)
TrimRight(s) ==
    IF s # "" /\ IsSpace(Char(s, Len(s)))
    THEN TrimRight(SubSeq(s, 1, Len(s) - 1)) ELSE s

\* strings.TrimSpace
TrimSpace(s) == TrimRight(TrimLeft(s))

Digits == "0123456789"
DigitSet == {Char(Digits, k) : k \in 1..Len(Digits)}
IsDigit(c) == c \in DigitSet

RECURSIVE DigitsValue(_, _)
DigitsValue(s, acc) ==
    IF s = "" THEN acc
    ELSE DigitsValue(From(s, 2), acc * 10 + (IndexFrom(Digits, Char(s, 1), 1) - 1))

AllDigits(s) == s # "" /\ \A k \in 1..Len(s) : IsDigit(Char(s, k))

\* strconv.Atoi: an optional sign and decimal digits; on failure the value is 0
Atoi(s) ==
    LET signed == s # "" /\ Char(s, 1) \in {"+", "-"}
        body   == IF signed THEN From(s, 2) ELSE s
    IN  IF AllDigits(body)
        THEN [ok |-> TRUE,
              val |-> IF signed /\ Char(s, 1) = "-"
                      THEN 0 - DigitsValue(body, 0) ELSE DigitsValue(body, 0)]
        ELSE [ok |-> FALSE, val |-> 0]

\* strconv.ParseUint(s, 10, 32): decimal digits only, no sign
ParseUint(s) ==
    IF AllDigits(s) THEN [ok |-> TRUE, val |-> DigitsValue(s, 0)]
    ELSE [ok |-> FALSE, val |-> 0]

(***************************************************************************)
(* Errors.                                                                 *)
(***************************************************************************)
NoErr == [nil |-> TRUE, text |-> ""]
Err(t) == [nil |-> FALSE, text |-> t]
\* fmt.Errorf(prefix + "%w", e)
Wrap(prefix, e) == Err(prefix \o e.text)

(***************************************************************************)
(* InstanceStatus and its predicates.                                      *)
(***************************************************************************)
InstanceStatusUnknown == ""
InstanceStatusRunning == "running"
InstanceStatusInhibited == "sign-on inhibited"
InstanceStatusPrimaryTransition == "sign-on inhibited:primary transition"
InstanceStatusDown == "down"
InstanceStatusMissingIDS == "running on node ? (cache.ids missing)"

Handled(iis) ==
    iis \in {InstanceStatusRunning, InstanceStatusInhibited,
             InstanceStatusPrimaryTransition, InstanceStatusDown,
             InstanceStatusMissingIDS}

Ready(iis) == iis \in {InstanceStatusRunning, InstanceStatusMissingIDS}

\* Up, were down not left out
UpWhenHandled(iis) ==
    iis \in {InstanceStatusRunning, InstanceStatusInhibited,
             InstanceStatusPrimaryTransition, InstanceStatusDown,
             InstanceStatusMissingIDS}

Up(iis) ==
    iis \in {InstanceStatusRunning, InstanceStatusInhibited,
             InstanceStatusPrimaryTransition, InstanceStatusMissingIDS}

\* Down, were the blank status taken for down
DownOrBlank(iis) == iis \in {InstanceStatusDown, InstanceStatusUnknown}

Down(iis) == iis \in {InstanceStatusDown}

RequiresBypass(iis) ==
    iis \in {InstanceStatusInhibited, InstanceStatusPrimaryTransition}

(***************************************************************************)
(* Product.                                                                *)
(***************************************************************************)
Cache == 0
Ensemble == 1
Iris == 2

ParseProduct(product) ==
    CASE product = "Cache" -> Cache
      [] product = "Ensemble" -> Ensemble
      [] product \in {"IDP", "IRIS"} -> Iris
      [] OTHER -> Cache

(***************************************************************************)
(* The parameters file, as the store LoadParametersISC builds from it: a   *)
(* set of entries [Group, Name, Values].  A file that cannot be opened has *)
(* exists = FALSE.                                                         *)
(***************************************************************************)

\* ParametersISC.Values with one identifier
Values(pi, identifier) ==
    With(Split(identifier, "."), LAMBDA s :
        LET group == IF Len(s) = 1 THEN "" ELSE s[1]
            name  == IF Len(s) = 1 THEN s[1] ELSE s[2]
            found == {e \in pi : e.Group = group /\ e.Name = name}
        IN  IF found = {} THEN <<>> ELSE (CHOOSE e \in found : TRUE).Values)

\* ParametersISC.Value
Value(pi, identifier) ==
    With(Values(pi, identifier), LAMBDA values :
        IF Len(values) = 1 THEN values[1] ELSE "")

\* Instance.ReadParametersISC over the parameters file pf
ReadParametersISC(pf) ==
    IF pf.exists THEN [err |-> NoErr, pi |-> pf.pi]
    ELSE [err |-> Err("open parameters.isc: no such file or directory"), pi |-> {}]

getUserAndGroupFromParameters(pf, desc, userKey, groupKey) ==
    With(ReadParametersISC(pf), LAMBDA r :
        IF ~r.err.nil THEN [err |-> r.err, user |-> "", group |-> ""]
        ELSE
    With(Value(r.pi, userKey), LAMBDA owner :
        IF owner = ""
        THEN [err |-> Err(desc \o " user not found in parameters file"),
              user |-> "", group |-> ""]
        ELSE
    With(Value(r.pi, groupKey), LAMBDA group :
        IF group = ""
        THEN [err |-> Err(desc \o " group not found in parameters file"),
              user |-> "", group |-> ""]
        ELSE [err |-> NoErr, user |-> owner, group |-> group])))

DetermineManager(pf) ==
    getUserAndGroupFromParameters(pf, "Manager", managerUserKey, managerGroupKey)

\* DetermineOwner, were the owner keys the same for every product
DetermineOwnerOfCache(i, pf) ==
    getUserAndGroupFromParameters(pf, "Owner", ownerUserKey, ownerGroupKey)

\* Instance.DetermineOwner
DetermineOwner(i, pf) ==
    IF i.Product = Iris
    THEN getUserAndGroupFromParameters(pf, "Owner", irisOwnerUserKey, irisOwnerGroupKey)
    ELSE getUserAndGroupFromParameters(pf, "Owner", ownerUserKey, ownerGroupKey)

(***************************************************************************)
(* The user database of the host (os/user) and the credential built from   *)
(* it.  NoAttr is the nil *syscall.SysProcAttr.                            *)
(***************************************************************************)
UserDB ==
    {[Username |-> "root", Uid |-> "0", Gid |-> "0"],
     [Username |-> "cacheusr", Uid |-> "1001", Gid |-> "1002"],
     [Username |-> "winusr", Uid |-> "S-1-5", Gid |-> "513"]}

NoAttr == [set |-> FALSE, Uid |-> 0, Gid |-> 0]
Credential(uid, gid) == [set |-> TRUE, Uid |-> uid, Gid |-> gid]

lookupUser(execUser) ==
    LET found == {u \in UserDB : u.Username = execUser}
        u     == CHOOSE x \in found : TRUE
    IN  IF found = {}
        THEN [err |-> Err("user: unknown user " \o execUser), uid |-> 0, gid |-> 0]
        ELSE With(ParseUint(u.Uid), LAMBDA uid :
             With(ParseUint(u.Gid), LAMBDA gid :
                 IF ~uid.ok
                 THEN [err |-> Err("strconv.ParseUint: parsing " \o u.Uid
                                   \o ": invalid syntax"),
                       uid |-> 0, gid |-> 0]
                 ELSE IF ~gid.ok
                 THEN [err |-> Err("strconv.ParseUint: parsing " \o u.Gid
                                   \o ": invalid syntax"),
                       uid |-> uid.val, gid |-> 0]
                 ELSE [err |-> NoErr, uid |-> uid.val, gid |-> gid.val]))

(***************************************************************************)
(* The Instance and its refresh from a qlist record.                       *)
(***************************************************************************)
\* new(Instance) with the given name
NewInstance(name) ==
    [SessionPath |-> "", ControlPath |-> "",
     Name |-> name, Directory |-> "", Version |-> "",
     Status |-> InstanceStatusUnknown, Activity |-> "", CPFFileName |-> "",
     SuperServerPort |-> 0, WebServerPort |-> 0, JDBCPort |-> 0,
     State |-> "", Product |-> Cache, MirrorMemberType |-> "",
     MirrorStatus |-> "", DataDirectory |-> "",
     executionSysProcAttr |-> NoAttr]

\* qlistStatus, were the field split at every comma
qlistStatusSplitAll(statusAndTime) ==
    With(Split(statusAndTime, ","), LAMBDA s :
        [status |-> ToLower(s[1]),
         activity |-> IF Len(s) > 1 THEN TrimSpace(s[2]) ELSE ""])

\* qlistStatus, computed from the text
qlistStatusScan(statusAndTime) ==
    With(SplitN2(statusAndTime, ","), LAMBDA s :
        [status |-> ToLower(s[1]),
         activity |-> IF Len(s) > 1 THEN TrimSpace(s[2]) ELSE ""])

\* The status fields of the records the tool can print, computed once.
StatusKnown == {Split(r, "^")[4] : r \in {q \in QlistRecords : Len(Split(q, "^")) >= 4}}
StatusTable == [x \in StatusKnown |-> qlistStatusScan(x)]

\* qlistStatus, were a status the code does not handle made the blank one
qlistStatusHandledOnly(statusAndTime) ==
    With(qlistStatusScan(statusAndTime), LAMBDA r :
        IF Handled(r.status) THEN r ELSE [r EXCEPT !.status = InstanceStatusUnknown])

qlistStatus(statusAndTime) ==
    IF statusAndTime \in StatusKnown THEN StatusTable[statusAndTime]
    ELSE qlistStatusScan(statusAndTime)

\* Instance.determineProduct: an empty product string falls back to the
\* parameters file
\* determineProduct, were the product read from the record alone
determineProductOfRecord(pf, product) == ParseProduct(product)

\* Instance.determineProduct
determineProduct(pf, product) ==
    IF product # "" THEN ParseProduct(product)
    ELSE With(ReadParametersISC(pf), LAMBDA r :
             IF ~r.err.nil THEN Cache
             ELSE ParseProduct(Value(r.pi, productNameKey)))

\* Instance.UpdateFromQList: the instance after the call and the error.
\* Each port is assigned as it is parsed, before the next one is looked at.
UpdateFromQList(i, pf, qlist) ==
    With(Split(qlist, "^"), LAMBDA qs :
        IF Len(qs) < 8
        THEN [inst |-> i,
              err |-> Err("insufficient pieces in qlist, need at least 8, qlist: "
                          \o qlist)]
        ELSE
    With(Atoi(qs[6]), LAMBDA p5 :
    With(Atoi(qs[7]), LAMBDA p6 :
    With(Atoi(qs[8]), LAMBDA p7 :
    With(qlistStatus(qs[4]), LAMBDA st :
        LET n  == Len(qs)
            i5 == [i EXCEPT !.SuperServerPort = p5.val]
            i6 == [i5 EXCEPT !.WebServerPort = p6.val]
            i7 == [i6 EXCEPT !.JDBCPort = p7.val]
        IN  IF ~p5.ok
            THEN [inst |-> i5, err |-> Err("strconv.Atoi: parsing " \o qs[6])]
            ELSE IF ~p6.ok
            THEN [inst |-> i6, err |-> Err("strconv.Atoi: parsing " \o qs[7])]
            ELSE IF ~p7.ok
            THEN [inst |-> i7, err |-> Err("strconv.Atoi: parsing " \o qs[8])]
            ELSE [inst |->
                    [i7 EXCEPT
                       !.Name = qs[1],
                       !.Directory = qs[2],
                       !.Version = qs[3],
                       !.Status = st.status,
                       !.Activity = st.activity,
                       !.CPFFileName = qs[5],
                       !.State = IF n = 8 THEN "ok" ELSE qs[9],
                       !.Product =
                           determineProduct(pf, IF n >= 10 THEN qs[10] ELSE ""),
                       !.MirrorMemberType = IF n >= 11 THEN qs[11] ELSE @,
                       !.MirrorStatus = IF n >= 12 THEN qs[12] ELSE @,
                       !.DataDirectory =
                           IF n >= 13 /\ qs[13] # "" THEN qs[13] ELSE qs[2]],
                  err |-> NoErr])))))

\* Instance.managerSysProc
managerSysProc(i, pf) ==
    IF i.Directory = "" THEN [err |-> NoErr, attr |-> NoAttr]
    ELSE With(DetermineManager(pf), LAMBDA m :
             IF ~m.err.nil THEN [err |-> m.err, attr |-> NoAttr]
             ELSE
         With(lookupUser(m.user), LAMBDA u :
             IF ~u.err.nil THEN [err |-> u.err, attr |-> NoAttr]
             ELSE [err |-> NoErr, attr |-> Credential(u.uid, u.gid)]))

\* The result of getQlist: q is what the qlist tool does now, a record
\* [err, out]
getQlist(q) == IF ~q.err.nil THEN [err |-> q.err, out |-> ""] ELSE q

\* Instance.Update against the tool result q and the parameters file pf:
\* the instance after the call, the error, and the number of qlist queries
\* issued.
Update(i, pf, q) ==
    With(managerSysProc(i, pf), LAMBDA m1 :
        IF ~m1.err.nil THEN [inst |-> i, err |-> m1.err, queries |-> 0]
        ELSE
    \* first: the query made without a manager when none was found
    With(IF m1.attr.set THEN [inst |-> i, err |-> NoErr, queries |-> 0]
         ELSE With(getQlist(q), LAMBDA g1 :
                  IF ~g1.err.nil THEN [inst |-> i, err |-> g1.err, queries |-> 1]
                  ELSE
              With(UpdateFromQList(i, pf, g1.out), LAMBDA u1 :
                  IF ~u1.err.nil
                  THEN [inst |-> u1.inst, err |-> u1.err, queries |-> 1]
                  ELSE [inst |-> u1.inst, err |-> managerSysProc(u1.inst, pf).err,
                        queries |-> 1])), LAMBDA first :
        IF ~first.err.nil THEN first
        ELSE
    With(getQlist(q), LAMBDA g2 :
        IF ~g2.err.nil
        THEN [inst |-> first.inst, err |-> g2.err, queries |-> first.queries + 1]
        ELSE
    With(UpdateFromQList(first.inst, pf, g2.out), LAMBDA u2 :
        [inst |-> u2.inst, err |-> u2.err, queries |-> first.queries + 1]))))

(***************************************************************************)
(* Package defaults and subprocess construction.                           *)
(***************************************************************************)
defaultCControlPath == "ccontrol"
defaultIrisPath == "iris"
defaultCSessionPath == "csession"
defaultIrisSessionCommand == defaultIrisPath \o " session"

\* the package-level path variables, which the setters of the package assign
VARIABLE pkg

\* the package-level variables as the package initializes them
PackageDefaults ==
    [CControlPath |-> defaultCControlPath, IrisPath |-> defaultIrisPath,
     CSessionPath |-> defaultCSessionPath,
     IrisSessionCommand |-> defaultIrisSessionCommand]

\* Instance.controlPath
controlPath(i) ==
    IF i.ControlPath = ""
    THEN (IF i.Product = Iris THEN pkg.IrisPath ELSE pkg.CControlPath)
    ELSE i.ControlPath

\* sessionCommand, were the path of csession the default of every product
sessionCommandOfCache(i) ==
    IF i.SessionPath = "" THEN pkg.CSessionPath ELSE i.SessionPath

\* Instance.sessionCommand
sessionCommand(i) ==
    IF i.SessionPath = ""
    THEN (IF i.Product = Iris THEN pkg.IrisSessionCommand ELSE pkg.CSessionPath)
    ELSE i.SessionPath

\* An exec.Cmd: the executable, its arguments and the credential it runs with
Cmd(path, args, attr) == [path |-> path, args |-> args, attr |-> attr]

\* A subprocess that was issued: the command, the error running it gave and
\* the output captured from it
Ran(cmd, err, output) ==
    [path |-> cmd.path, args |-> cmd.args, attr |-> cmd.attr,
     err |-> err, output |-> output]

\* SessionCommand, were the arguments of the session command string put
\* after the name, the namespace and the command
SessionCommandArgsLast(i, namespace, command) ==
    LET a1   == <<i.Name>>
        a2   == IF namespace # "" THEN a1 \o <<"-U", namespace>> ELSE a1
        a3   == IF command # "" THEN a2 \o <<command>> ELSE a2
    IN  With(sessionCommand(i), LAMBDA sc :
        With(Split(sc, " "), LAMBDA scp :
            IF Contains(sc, " ")
            THEN Cmd(scp[1], a3 \o Tail(scp), i.executionSysProcAttr)
            ELSE Cmd(sc, a3, i.executionSysProcAttr)))

\* Instance.SessionCommand
SessionCommand(i, namespace, command) ==
    LET a1   == <<i.Name>>
        a2   == IF namespace # "" THEN a1 \o <<"-U", namespace>> ELSE a1
        a3   == IF command # "" THEN a2 \o <<command>> ELSE a2
    IN  With(sessionCommand(i), LAMBDA sc :
        With(Split(sc, " "), LAMBDA scp :
            IF Contains(sc, " ")
            THEN Cmd(scp[1], Tail(scp) \o a3, i.executionSysProcAttr)
            ELSE Cmd(sc, a3, i.executionSysProcAttr)))

(***************************************************************************)
(* Start and Stop.  run is what the control executable does when it is     *)
(* run, [err, output]; tool0 is the qlist tool's behaviour when the        *)
(* external action is not run, tool1 its behaviour after the action ran.   *)
(* step tells what became of the external action: "skipped", "ran" (exit   *)
(* status zero) or "failed".                                               *)
(***************************************************************************)
\* StartNeeded, were the action run whenever the instance is not ready
StartNeededUnlessReady(i) == ~Ready(i.Status)

\* the condition under which Start runs the external start action
StartNeeded(i) == Down(i.Status)

\* the error Start returns when the start action fails
StartActionError(run) == Wrap("error starting instance, error: ", run.err)

\* the first block of Start: the external start action
StartAction(i, pf, run) ==
    IF ~StartNeeded(i) THEN [err |-> NoErr, cmds |-> <<>>, step |-> "skipped"]
    ELSE With(managerSysProc(i, pf), LAMBDA m :
         With(Ran(Cmd(controlPath(i), <<"start", i.Name, "quietly">>, m.attr),
                  run.err, run.output), LAMBDA cmd :
             IF ~m.err.nil THEN [err |-> m.err, cmds |-> <<>>, step |-> "failed"]
             ELSE IF ~run.err.nil
             THEN [err |-> StartActionError(run), cmds |-> <<cmd>>, step |-> "failed"]
             ELSE [err |-> NoErr, cmds |-> <<cmd>>, step |-> "ran"]))

\* StartRefresh, were the re-query left out
StartRefreshNone(i, pf, q) ==
    [inst |-> i, updates |-> 0, refresh |-> NoErr, err |-> NoErr]

\* the second block of Start: the re-query.  refresh is the error of Update.
StartRefresh(i, pf, q) ==
    With(Update(i, pf, q), LAMBDA u :
        [inst |-> u.inst, updates |-> 1, refresh |-> u.err,
         err |-> IF ~u.err.nil
                 THEN Wrap("error refreshing instance state during start, error: ",
                           u.err)
                 ELSE NoErr])

\* StartVerify, were every up status accepted
StartVerifyUp(i) ==
    IF ~Up(i.Status)
    THEN Err("failed to start instance, name: " \o i.Name \o ", status: " \o i.Status)
    ELSE NoErr

\* the last lines of Start: the status check after the re-query
StartVerify(i) ==
    IF ~Ready(i.Status)
    THEN Err("failed to start instance, name: " \o i.Name \o ", status: " \o i.Status)
    ELSE NoErr

\* Instance.Start
StartOp(i, pf, run, tool0, tool1) ==
    With(StartAction(i, pf, run), LAMBDA a :
    With(IF a.cmds = <<>> THEN tool0 ELSE tool1, LAMBDA tool :
        IF ~a.err.nil
        THEN [inst |-> i, err |-> a.err, cmds |-> a.cmds, step |-> a.step,
              updates |-> 0, refresh |-> NoErr, tool |-> tool]
        ELSE With(StartRefresh(i, pf, tool), LAMBDA r :
                 [inst |-> r.inst,
                  err |-> IF ~r.err.nil THEN r.err ELSE StartVerify(r.inst),
                  cmds |-> a.cmds, step |-> a.step,
                  updates |-> r.updates, refresh |-> r.refresh, tool |-> tool])))

\* the condition under which Stop runs the external stop action
StopNeeded(i) == Up(i.Status)

\* StopArgs, were the bypass flag appended after the quiet flag
StopArgsQuietFirst(i) ==
    <<"stop", i.Name, "quietly">>
        \o (IF RequiresBypass(i.Status) THEN <<"bypass">> ELSE <<>>)

\* the arguments of the stop action
StopArgs(i) ==
    <<"stop", i.Name>>
        \o (IF RequiresBypass(i.Status) THEN <<"bypass">> ELSE <<>>)
        \o <<"quietly">>

\* the error Stop returns when the stop action fails
StopActionError(run) == Wrap("error stopping instance, error: ", run.err)

\* the first block of Stop: the external stop action
StopAction(i, pf, run) ==
    IF ~StopNeeded(i) THEN [err |-> NoErr, cmds |-> <<>>, step |-> "skipped"]
    ELSE With(managerSysProc(i, pf), LAMBDA m :
         With(Ran(Cmd(controlPath(i), StopArgs(i), m.attr), run.err, run.output),
              LAMBDA cmd :
             IF ~m.err.nil THEN [err |-> m.err, cmds |-> <<>>, step |-> "failed"]
             ELSE IF ~run.err.nil
             THEN [err |-> StopActionError(run), cmds |-> <<cmd>>, step |-> "failed"]
             ELSE [err |-> NoErr, cmds |-> <<cmd>>, step |-> "ran"]))

\* the second block of Stop: the re-query.  refresh is the error of Update.
StopRefresh(i, pf, q) ==
    With(Update(i, pf, q), LAMBDA u :
        [inst |-> u.inst, updates |-> 1, refresh |-> u.err,
         err |-> IF ~u.err.nil
                 THEN Wrap("error refreshing instance state during stop, error: ",
                           u.err)
                 ELSE NoErr])

\* StopVerify, were only an up status refused
StopVerifyNotUp(i) ==
    IF Up(i.Status)
    THEN Err("failed to stop instance, name: " \o i.Name \o ", status: " \o i.Status)
    ELSE NoErr

\* the last lines of Stop: the status check after the re-query
StopVerify(i) ==
    IF ~Down(i.Status)
    THEN Err("failed to stop instance, name: " \o i.Name \o ", status: " \o i.Status)
    ELSE NoErr

\* Instance.Stop
StopOp(i, pf, run, tool0, tool1) ==
    With(StopAction(i, pf, run), LAMBDA a :
    With(IF a.cmds = <<>> THEN tool0 ELSE tool1, LAMBDA tool :
        IF ~a.err.nil
        THEN [inst |-> i, err |-> a.err, cmds |-> a.cmds, step |-> a.step,
              updates |-> 0, refresh |-> NoErr, tool |-> tool]
        ELSE With(StopRefresh(i, pf, tool), LAMBDA r :
                 [inst |-> r.inst,
                  err |-> IF ~r.err.nil THEN r.err ELSE StopVerify(r.inst),
                  cmds |-> a.cmds, step |-> a.step,
                  updates |-> r.updates, refresh |-> r.refresh, tool |-> tool])))

(***************************************************************************)
(* The privilege context.                                                  *)
(***************************************************************************)
\* checkUser: nil exactly when the process already runs as the named user
checkUser(procUser, name) ==
    IF procUser = name THEN NoErr
    ELSE Err("must be executed as " \o name \o ", not " \o procUser)

\* ExecuteAsUser, were a failure to fall back to the current user
ExecuteAsUserOrCurrent(i, procUser, execUser) ==
    With(lookupUser(execUser), LAMBDA u :
        IF checkUser(procUser, execUser).nil
        THEN [inst |-> i, err |-> NoErr, user |-> execUser]
        ELSE IF ~checkUser(procUser, "root").nil \/ ~u.err.nil
        THEN [inst |-> [i EXCEPT !.executionSysProcAttr = NoAttr],
              err |-> IF ~checkUser(procUser, "root").nil
                      THEN checkUser(procUser, "root") ELSE u.err,
              user |-> execUser]
        ELSE [inst |-> [i EXCEPT !.executionSysProcAttr = Credential(u.uid, u.gid)],
              err |-> NoErr, user |-> execUser])

\* Instance.ExecuteAsUser: the instance after the call, the error, and the
\* user the call was made for
ExecuteAsUserOp(i, procUser, execUser) ==
    With(lookupUser(execUser), LAMBDA u :
        IF checkUser(procUser, execUser).nil
        THEN [inst |-> i, err |-> NoErr, user |-> execUser]
        ELSE IF ~checkUser(procUser, "root").nil
        THEN [inst |-> i, err |-> checkUser(procUser, "root"), user |-> execUser]
        ELSE IF ~u.err.nil THEN [inst |-> i, err |-> u.err, user |-> execUser]
        ELSE [inst |-> [i EXCEPT !.executionSysProcAttr = Credential(u.uid, u.gid)],
              err |-> NoErr, user |-> execUser])

\* Instance.ExecuteAsManager
ExecuteAsManagerOp(i, pf, procUser) ==
    With(DetermineManager(pf), LAMBDA m :
        IF ~m.err.nil THEN [inst |-> i, err |-> m.err, user |-> ""]
        ELSE ExecuteAsUserOp(i, procUser, m.user))

\* Instance.ExecuteAsCurrentUser
ExecuteAsCurrentUserOp(i) ==
    [inst |-> [i EXCEPT !.executionSysProcAttr = NoAttr], err |-> NoErr]

(***************************************************************************)
(* The execution pipeline.                                                 *)
(***************************************************************************)
ErrLoadFailed == Err("load did not appear to finish successfully")
TooManyRecursiveDirsErr == Err("The glob must contain at most one **")
MissingPathSeparatorErr ==
    Err("There must be a path separator between ** and file pattern")
PathAfterRecursiveDirsErr ==
    Err("A ** must only be used as the last portion of the path before the file pattern")
WildcardInDirectoryErr == Err("The directory portion of the glob must not contain *")

\* the position of the last "/" of p, 0 if none
RECURSIVE LastSlash(_, _)
LastSlash(p, k) ==
    IF k = 0 THEN 0 ELSE IF Char(p, k) = "/" THEN k ELSE LastSlash(p, k - 1)

RECURSIVE StripSlashes(_)
StripSlashes(p) ==
    IF Len(p) > 1 /\ Char(p, Len(p)) = "/"
    THEN StripSlashes(SubSeq(p, 1, Len(p) - 1)) ELSE p

\* filepath.Base
PathBase(p) ==
    LET q == StripSlashes(p)
    IN  IF p = "" THEN "."
        ELSE IF q = "/" THEN "/"
        ELSE From(q, LastSlash(q, Len(q)) + 1)

\* filepath.Dir, for a path whose directory part is already in clean form
PathDir(p) ==
    LET k == LastSlash(p, Len(p))
        d == StripSlashes(SubSeq(p, 1, k))
    IN  IF d = "" THEN "." ELSE d

\* strings.HasPrefix
HasPrefix(s, prefix) ==
    Len(s) >= Len(prefix) /\ SubSeq(s, 1, Len(prefix)) = prefix

\* filepath.Clean, for a path in clean form but for the slashes it ends with
PathClean(p) == IF p = "" THEN "." ELSE StripSlashes(p)

\* ImportDescription.String
ImportString(dir, pat, qualifiers, recursive) ==
    "##class(%SYSTEM.OBJ).ImportDir(\"" \o dir \o "\",\"" \o pat \o "\",\""
        \o qualifiers \o "\",," \o (IF recursive THEN "1" ELSE "0") \o ")"

\* no ImportDescription, and the error
NoDescription(err) ==
    [err |-> err, nil |-> TRUE, Dir |-> "", FilePattern |-> "", Recursive |-> FALSE,
     cmd |-> ""]

\* NewImportDescription, were the test for a '*' in the directory made on
\* globs without ** only
NewImportDescriptionPlainOnly(pathGlob, qualifiers, cwd) ==
    With(Split(pathGlob, "**"), LAMBDA s :
    With(IF Len(s) = 1 THEN PathDir(s[1]) ELSE PathClean(s[1]), LAMBDA dir :
    With(IF Len(s) = 1 THEN PathBase(s[1]) ELSE PathBase(s[2]), LAMBDA pat :
        IF Len(s) > 2 THEN NoDescription(TooManyRecursiveDirsErr)
        ELSE IF Len(s) = 2 /\ ~HasPrefix(s[2], "/")
        THEN NoDescription(MissingPathSeparatorErr)
        ELSE IF Len(s) = 2 /\ PathDir(s[2]) # "/"
        THEN NoDescription(PathAfterRecursiveDirsErr)
        ELSE IF Len(s) = 1 /\ Contains(dir, "*") THEN NoDescription(WildcardInDirectoryErr)
        ELSE [err |-> NoErr, nil |-> FALSE,
              Dir |-> IF dir = "." THEN cwd ELSE dir,
              FilePattern |-> pat,
              Recursive |-> Len(s) = 2,
              cmd |-> ImportString(IF dir = "." THEN cwd ELSE dir, pat, qualifiers,
                                   Len(s) = 2)])))

\* NewImportDescription, with the working directory cwd, and the String of
\* the description it returns
NewImportDescription(pathGlob, qualifiers, cwd) ==
    With(Split(pathGlob, "**"), LAMBDA s :
    With(IF Len(s) = 1 THEN PathDir(s[1]) ELSE PathClean(s[1]), LAMBDA dir :
    With(IF Len(s) = 1 THEN PathBase(s[1]) ELSE PathBase(s[2]), LAMBDA pat :
        IF Len(s) > 2 THEN NoDescription(TooManyRecursiveDirsErr)
        ELSE IF Len(s) = 2 /\ ~HasPrefix(s[2], "/")
        THEN NoDescription(MissingPathSeparatorErr)
        ELSE IF Len(s) = 2 /\ PathDir(s[2]) # "/"
        THEN NoDescription(PathAfterRecursiveDirsErr)
        ELSE IF Contains(dir, "*") THEN NoDescription(WildcardInDirectoryErr)
        ELSE [err |-> NoErr, nil |-> FALSE,
              Dir |-> IF dir = "." THEN cwd ELSE dir,
              FilePattern |-> pat,
              Recursive |-> Len(s) = 2,
              cmd |-> ImportString(IF dir = "." THEN cwd ELSE dir, pat, qualifiers,
                                   Len(s) = 2)])))

DefaultImportQualifiers == "/compile/keepsource/expand/multicompile"

\* ImportSource, were the marker not looked for
loadFinishedOnExitZero(out) == TRUE

\* the test ImportSource makes on the output of an import that exited zero
loadFinished(out) == Contains(out, "Load finished successfully.")

\* Instance.ImportSource; run is what the session subprocess does, [err, output]
ImportSource(i, namespace, sourcePathGlob, qualifiers, run) ==
    With(IF TrimSpace(qualifiers) = "" THEN DefaultImportQualifiers
         ELSE TrimSpace(qualifiers), LAMBDA qstr :
    With(NewImportDescription(sourcePathGlob, qstr, "/cwd"), LAMBDA id :
    With(Ran(SessionCommand(i, namespace, id.cmd), run.err, run.output), LAMBDA cmd :
        IF ~id.err.nil THEN [out |-> "", err |-> id.err, cmds |-> <<>>]
        ELSE IF ~run.err.nil THEN [out |-> run.output, err |-> run.err, cmds |-> <<cmd>>]
        ELSE IF ~loadFinished(run.output)
        THEN [out |-> run.output, err |-> ErrLoadFailed, cmds |-> <<cmd>>]
        ELSE [out |-> run.output, err |-> NoErr, cmds |-> <<cmd>>])))

\* the name os.CreateTemp gives its n-th file
TmpPath(n) == "/tmp/ELEXEC" \o Char(Digits, n + 1)

\* Instance.genExecutorTmpFile creating file n; failAt is the step the
\* operating system or the reader fails at ("none" when nothing fails).
\* created tells whether file n exists when the function returns.
genExecutorTmpFile(i, n, failAt) ==
    CASE failAt = "create" ->
           [path |-> "", err |-> Err("open " \o TmpPath(n)), created |-> FALSE]
      [] failAt = "chmod" ->
           [path |-> "", created |-> TRUE,
            err |-> Wrap("failed to set permissions on import file: ", Err("chmod"))]
      [] failAt = "header" ->
           [path |-> "", created |-> TRUE,
            err |-> Wrap("failed to write XML header: ", Err("write"))]
      [] failAt = "copy" ->
           [path |-> "", created |-> TRUE, err |-> Err("read code")]
      [] failAt = "footer" ->
           [path |-> "", created |-> TRUE,
            err |-> Wrap("failed to write XML footer: ", Err("write"))]
      [] failAt = "chown" /\ i.executionSysProcAttr.set ->
           [path |-> "", created |-> TRUE,
            err |-> Wrap("failed to set ownership on import file: ", Err("chown"))]
      [] OTHER -> [path |-> TmpPath(n), err |-> NoErr, created |-> TRUE]

\* Instance.removeTempRoutine; run is what the session subprocess does:
\* [start, wait], the errors of cmd.Start and cmd.Wait
removeTempRoutine(i, namespace, path, run) ==
    LET cmd == SessionCommand(i, namespace,
                   "##class(%Routine).Delete(\"" \o PathBase(path) \o "\",0,1)")
    IN  [cmd |-> Ran(cmd, IF ~run.start.nil THEN run.start ELSE run.wait, ""),
         err |-> IF ~run.start.nil
                 THEN Wrap("failed to start routine deletion: ", run.start)
                 ELSE IF ~run.wait.nil
                 THEN Wrap("failed to execute routine deletion: ", run.wait)
                 ELSE NoErr]

\* deferredRemoveTempRoutine, were the error of the deletion returned
deferredRemoveOverrides(ret, del) == IF ~del.err.nil THEN del.err ELSE ret

\* the deferred call of removeTempRoutine in ExecuteWithOutput: its error is
\* logged and the value being returned, ret, stays
deferredRemoveTempRoutine(ret, del) == ret

\* Instance.ExecuteWithOutput with temporary file n over the set files of
\* existing temporary files: the error returned, the subprocesses issued in
\* order, and the temporary files left when the call returns.  The record
\* also tells how far the call got: whether the import succeeded, and what
\* the entry point and the deletion of the routine returned.
ExecuteWithOutputOp(i, namespace, files, n, failAt, importRun, entryRun, deleteRun) ==
    With(genExecutorTmpFile(i, n, failAt), LAMBDA g :
    With(ImportSource(i, namespace, g.path, "/compile" \o "/keepsource", importRun),
         LAMBDA imp :
    With(PathBase(g.path), LAMBDA routineName :
    With(IF ~entryRun.start.nil THEN entryRun.start ELSE entryRun.wait, LAMBDA ent :
    With(removeTempRoutine(i, namespace, routineName, deleteRun), LAMBDA del :
        LET cmd == Ran(SessionCommand(i, namespace, "EnsLibMain^" \o routineName),
                       ent, "")
        IN  IF ~g.err.nil
            THEN [err |-> g.err, cmds |-> <<>>, tmp |-> n,
                  files |-> IF g.created THEN files \cup {n} ELSE files,
                  imported |-> FALSE, entry |-> NoErr, deleted |-> NoErr]
            \* from here on the deferred os.Remove(codePath) runs at return
            ELSE IF ~imp.err.nil
            THEN [err |-> imp.err, cmds |-> imp.cmds, tmp |-> n,
                  files |-> files \ {n},
                  imported |-> FALSE, entry |-> NoErr, deleted |-> NoErr]
            \* from here on the deferred removeTempRoutine runs at return
            ELSE [err |-> deferredRemoveTempRoutine(ent, del),
                  cmds |-> imp.cmds \o <<cmd, del.cmd>>, tmp |-> n,
                  files |-> files \ {n},
                  imported |-> TRUE, entry |-> ent, deleted |-> del.err])))))

(***************************************************************************)
(* ToggleZSTU.  A file is [exists, data]; data is the bytes of the file as  *)
(* a string.                                                               *)
(***************************************************************************)
\* bufio.ScanLines: the token without a carriage return at its end
dropCR(t) ==
    IF t # "" /\ Char(t, Len(t)) = "\r" THEN SubSeq(t, 1, Len(t) - 1) ELSE t

\* the tokens bufio.Scanner yields over data with ScanLines: the text up to
\* each newline, and the text after the last newline when there is some
RECURSIVE ScanLines(_)
ScanLines(data) ==
    IF data = "" THEN <<>>
    ELSE With(IndexFrom(data, "\n", 1), LAMBDA k :
             IF k = 0 THEN <<dropCR(data)>>
             ELSE <<dropCR(SubSeq(data, 1, k - 1))>> \o ScanLines(From(data, k + 1)))

\* the bytes of a sequence of writes
RECURSIVE Concat(_)
Concat(ws) == IF ws = <<>> THEN "" ELSE Head(ws) \o Concat(Tail(ws))

\* the first k elements of a sequence, the first k bytes of a string
Prefix(q, k) == SubSeq(q, 1, IF k < Len(q) THEN k ELSE Len(q))

\* the loop of parseAndWriteCPF over the lines scanned: the original value
\* and the writes made to the temporary file
RECURSIVE scanLoop(_, _, _, _)
scanLoop(lines, onOrOff, originalValue, out) ==
    IF lines = <<>> THEN [originalValue |-> originalValue, out |-> out]
    ELSE IF Head(lines) = "ZSTU=1" \/ Head(lines) = "ZSTU=0"
    THEN scanLoop(Tail(lines), onOrOff, Head(lines) = "ZSTU=1",
                  Append(out, IF onOrOff THEN "ZSTU=1\n" ELSE "ZSTU=0\n"))
    ELSE scanLoop(Tail(lines), onOrOff, originalValue,
                  Append(out, Head(lines) \o "\n"))

\* parseAndWriteCPF over the bytes data.  failAt = "scan": the reader fails
\* after k lines were scanned; failAt = "write": the writes to the temporary
\* file fail after k of them, and their errors are not looked at.
parseAndWriteCPF(data, onOrOff, failAt, k) ==
    With(ScanLines(data), LAMBDA lines :
    With(scanLoop(IF failAt = "scan" THEN Prefix(lines, k) ELSE lines,
                  onOrOff, FALSE, <<>>), LAMBDA r :
        [originalValue |-> r.originalValue,
         written |-> Concat(IF failAt = "write" THEN Prefix(r.out, k) ELSE r.out),
         complete |-> failAt \notin {"scan", "write"} \/ (failAt = "write" /\ k >= Len(r.out)),
         err |-> IF failAt = "scan" THEN Err("read error") ELSE NoErr]))

\* ToggleZSTU on the file cpfFile, with temporary file n over the set files
\* of existing temporary files.  failAt names the step that fails, "none" if
\* none does; a copy that fails has copied k bytes.  The result tells the value and error returned, the file and
\* the temporary files as the call leaves them, the bytes written to the
\* temporary file, and the handles the call opened and did not close.
ToggleZSTUOp(cpfFile, onOrOff, files, n, failAt, k) ==
    With(parseAndWriteCPF(cpfFile.data, onOrOff, failAt, k), LAMBDA p :
    With([originalValue |-> p.originalValue, err |-> Err(failAt), cpf |-> cpfFile,
          files |-> files \cup {n}, tmp |-> n, written |-> p.written,
          complete |-> p.complete, open |-> {}], LAMBDA ret :
        IF ~cpfFile.exists \/ failAt = "open"
        THEN [ret EXCEPT !.originalValue = FALSE, !.files = files, !.written = "",
                         !.err = Err("open: no such file or directory")]
        ELSE IF failAt = "tempfile"
        THEN [ret EXCEPT !.originalValue = FALSE, !.files = files, !.written = "",
                         !.open = {"cpfFile"}]
        ELSE IF ~p.err.nil
        THEN [ret EXCEPT !.err = p.err, !.open = {"cpfFile", "tmpFile"}]
        ELSE IF failAt = "closeSource"
        THEN [ret EXCEPT !.open = {"tmpFile"}]
        ELSE IF failAt = "closeTemp"
        THEN ret
        ELSE IF failAt = "create"
        THEN ret
        \* from here on FS.Create has truncated the file
        ELSE IF failAt = "openTemp"
        THEN [ret EXCEPT !.cpf = [exists |-> TRUE, data |-> ""], !.open = {"cpfFile"}]
        ELSE IF failAt = "copy"
        THEN [ret EXCEPT !.cpf = [exists |-> TRUE,
                                  data |-> Prefix(p.written, k)],
                         !.open = {"cpfFile", "newCpfFile"}]
        ELSE IF failAt = "closeTarget"
        THEN [ret EXCEPT !.cpf = [exists |-> TRUE, data |-> p.written],
                         !.open = {"newCpfFile"}]
        ELSE IF failAt = "closeNew"
        THEN [ret EXCEPT !.cpf = [exists |-> TRUE, data |-> p.written]]
        \* the error of FS.Remove is not looked at
        ELSE [ret EXCEPT !.cpf = [exists |-> TRUE, data |-> p.written],
                         !.err = NoErr,
                         !.files = IF failAt = "remove" THEN files \cup {n} ELSE files]))

(***************************************************************************)
(* LoadParametersISC: the store read from the text of a parameters file.   *)
(***************************************************************************)
\* the number of white space characters s starts with
RECURSIVE LeadingSpaces(_)
LeadingSpaces(s) ==
    IF s # "" /\ IsSpace(Char(s, 1)) THEN 1 + LeadingSpaces(From(s, 2)) ELSE 0

\* the place of the last colon of t at or after lo, 0 without one
LastColonFrom(t, lo) ==
    IF \E c \in lo..Len(t) : Char(t, c) = ":"
    THEN CHOOSE c \in lo..Len(t) :
             Char(t, c) = ":" /\ \A j \in (c + 1)..Len(t) : Char(t, j) # ":"
    ELSE 0

NoMatch == [ok |-> FALSE, group |-> "", name |-> "", value |-> ""]

\* matchAfter, were the group cut at the last '.' before the last ':'
matchAfterLastDot(t, w) ==
    With(LastColonFrom(t, w + 2), LAMBDA cn :
        IF cn = 0 THEN NoMatch
        ELSE IF \E d \in (w + 2)..(cn - 2) : Char(t, d) = "."
        THEN With(CHOOSE d \in (w + 2)..(cn - 2) :
                      Char(t, d) = "." /\ \A j \in (d + 1)..(cn - 2) : Char(t, j) # ".",
                  LAMBDA d :
                 [ok |-> TRUE, group |-> SubSeq(t, w + 1, d - 1),
                  name |-> SubSeq(t, d + 1, cn - 1), value |-> TrimLeft(From(t, cn + 1))])
        ELSE [ok |-> TRUE, group |-> "",
              name |-> SubSeq(t, w + 1, cn - 1), value |-> TrimLeft(From(t, cn + 1))])

\* parameterLinePattern matched on t with \s* taking w characters: the
\* group alternative ([^.]+ runs to the first '.') is tried first, then the
\* line without a group; (.+) is greedy and runs to the last ':'
matchAfter(t, w) ==
    With(IndexFrom(t, ".", w + 1), LAMBDA d :
    With(IF d > w + 1 THEN LastColonFrom(t, d + 2) ELSE 0, LAMBDA cg :
    With(LastColonFrom(t, w + 2), LAMBDA cn :
        IF cg > 0
        THEN [ok |-> TRUE, group |-> SubSeq(t, w + 1, d - 1),
              name |-> SubSeq(t, d + 1, cg - 1), value |-> TrimLeft(From(t, cg + 1))]
        ELSE IF cn > 0
        THEN [ok |-> TRUE, group |-> "",
              name |-> SubSeq(t, w + 1, cn - 1), value |-> TrimLeft(From(t, cn + 1))]
        ELSE NoMatch)))

\* parameterLineRegexp.FindStringSubmatch: \s* is greedy and gives white
\* space back only when nothing matches with more of it
FindStringSubmatch(t) ==
    With({w \in 0..LeadingSpaces(t) : matchAfter(t, w).ok}, LAMBDA ws :
        IF ws = {} THEN NoMatch
        ELSE matchAfter(t, CHOOSE w \in ws : \A v \in ws : v <= w))

\* addValue, were a later value put before the earlier ones
addValueInFront(pi, group, name, value) ==
    IF \E e \in pi : e.Group = group /\ e.Name = name
    THEN {IF e.Group = group /\ e.Name = name
          THEN [e EXCEPT !.Values = <<value>> \o @] ELSE e : e \in pi}
    ELSE pi \cup {[Group |-> group, Name |-> name, Values |-> <<value>>]}

\* the body of the loop of LoadParametersISC on a matching line
addValue(pi, group, name, value) ==
    IF \E e \in pi : e.Group = group /\ e.Name = name
    THEN {IF e.Group = group /\ e.Name = name
          THEN [e EXCEPT !.Values = Append(@, value)] ELSE e : e \in pi}
    ELSE pi \cup {[Group |-> group, Name |-> name, Values |-> <<value>>]}

\* the loop of LoadParametersISC, were a line that does not match skipped
RECURSIVE loadLinesLenient(_, _)
loadLinesLenient(lines, pi) ==
    IF lines = <<>> THEN [pi |-> pi, err |-> NoErr, nil |-> FALSE]
    ELSE With(FindStringSubmatch(Head(lines)), LAMBDA m :
             IF TrimSpace(Head(lines)) = "" \/ ~m.ok
             THEN loadLinesLenient(Tail(lines), pi)
             ELSE loadLinesLenient(Tail(lines), addValue(pi, m.group, m.name, m.value)))

\* the loop of LoadParametersISC over the lines of the scanner
RECURSIVE loadLines(_, _)
loadLines(lines, pi) ==
    IF lines = <<>> THEN [pi |-> pi, err |-> NoErr, nil |-> FALSE]
    ELSE IF TrimSpace(Head(lines)) = "" THEN loadLines(Tail(lines), pi)
    ELSE With(FindStringSubmatch(Head(lines)), LAMBDA m :
             IF ~m.ok
             THEN [pi |-> {}, nil |-> TRUE,
                   err |-> Err("malformed parameter line: " \o Head(lines))]
             ELSE loadLines(Tail(lines), addValue(pi, m.group, m.name, m.value)))

\* LoadParametersISC over a reader that gives data and does not fail
LoadParametersISC(data) == loadLines(ScanLines(data), {})

\* ParametersISCEntry.Key
Key(e) == IF e.Group = "" THEN e.Name ELSE e.Group \o "." \o e.Name

\* ParametersISC.Values with any number of identifiers
ValuesOf(pi, identifiers) ==
    IF Len(identifiers) = 1 THEN Values(pi, identifiers[1])
    ELSE IF Len(identifiers) = 2
    THEN With({e \in pi : e.Group = identifiers[1] /\ e.Name = identifiers[2]},
              LAMBDA found :
                 IF found = {} THEN <<>> ELSE (CHOOSE e \in found : TRUE).Values)
    ELSE <<>>

\* ParametersISC.Value with any number of identifiers
ValueOf(pi, identifiers) ==
    With(ValuesOf(pi, identifiers), LAMBDA values :
        IF Len(values) = 1 THEN values[1] ELSE "")

(***************************************************************************)
(* The environment: what the tools, the files and the host can do.         *)
(***************************************************************************)
\* what the qlist tool does when asked: fail, or print one of the records
QlistTools ==
    {[err |-> Err("error running qlist: exit status 1"), out |-> ""]}
        \cup {[err |-> NoErr, out |-> r] : r \in QlistRecords}

Entry(group, name, values) == [Group |-> group, Name |-> name, Values |-> values]

ParamFiles ==
    {[exists |-> FALSE, pi |-> {}],
     [exists |-> TRUE,
      pi |-> {Entry("security_settings", "manager_user", <<"cacheusr">>),
              Entry("security_settings", "manager_group", <<"cacheusr">>),
              Entry("product_info", "name", <<"Ensemble">>)}],
     [exists |-> TRUE,
      pi |-> {Entry("security_settings", "manager_user", <<"cacheusr", "root">>),
              Entry("security_settings", "manager_group", <<"cacheusr">>)}]}

\* the values a parameters file holds under a user key and a group key:
\* none, an empty one, one, or two
UserKeyValues == {<<>>, <<"">>, <<"u">>, <<"u", "v">>}
GroupKeyValues == {<<>>, <<"">>, <<"g">>}

\* the entries of a file for a pair of keys of security_settings; a key
\* without values has no entry, and the values carry the name of their key
KeyEntries(name, values) ==
    IF values = <<>> THEN {}
    ELSE {Entry("security_settings", name,
                [k \in DOMAIN values |->
                    IF values[k] = "" THEN "" ELSE name \o "-" \o values[k]])}

\* the parameters files the owner and the manager are determined from
OwnerFiles ==
    {[exists |-> FALSE, pi |-> {}]} \cup
    {[exists |-> TRUE,
      pi |-> KeyEntries("manager_user", mu) \cup KeyEntries("manager_group", mg)
             \cup KeyEntries("cache_user", cu) \cup KeyEntries("cache_group", cg)
             \cup KeyEntries("iris_user", iu) \cup KeyEntries("iris_group", ig)] :
        mu \in UserKeyValues, mg \in GroupKeyValues,
        cu \in UserKeyValues, cg \in GroupKeyValues,
        iu \in UserKeyValues, ig \in GroupKeyValues}

\* records of instances of each product
ProductRecords ==
    {"I^/d^1^running^c^1^2^3^ok^IRIS^^^",
     "I^/d^1^running^c^1^2^3^ok^Ensemble^^^",
     "I^/d^1^running^c^1^2^3^ok^Cache^^^"}

\* what the control executable does when run
ControlRuns ==
    {[err |-> NoErr, output |-> "done"],
     [err |-> Err("exit status 1"), output |-> "boom"]}

\* what the session subprocess does on an import
ImportRuns ==
    {[err |-> NoErr, output |-> "Load started\nLoad finished successfully.\n"],
     [err |-> NoErr, output |-> "ERROR #5475"],
     [err |-> Err("exit status 1"), output |-> "boom"]}

\* what a started-and-waited session subprocess does
SessionRuns ==
    {[start |-> NoErr, wait |-> NoErr],
     [start |-> NoErr, wait |-> Err("exit status 99")],
     [start |-> Err("exec: not found"), wait |-> NoErr]}

FailPoints == {"none", "create", "chmod", "header", "copy", "footer", "chown"}
Namespaces == {"", "USER"}
ProcessUsers == {"root", "cacheusr"}
ExecUsers == {"root", "cacheusr", "winusr", "ghost"}
TmpNames == 1..MaxTmpFiles
\* the globs ImportSource is called with: a file, a recursive pattern, and
\* one NewImportDescription rejects
SourceGlobs == {"/a/b/f.xml", "/a/**/*.xml", "/a/*/f.xml"}

\* the inputs of one ExecuteWithOutput call: the step that fails while the
\* temporary file is written and what the three session subprocesses do.
\* A subprocess that is not reached is listed once, with its first behaviour.
ExecuteInputs ==
    LET canonImport == [err |-> NoErr,
                        output |-> "Load started\nLoad finished successfully.\n"]
        canonRun    == [start |-> NoErr, wait |-> NoErr]
        importOK(r) == r.err.nil /\ Contains(r.output, "Load finished successfully.")
    IN  {x \in FailPoints \X ImportRuns \X SessionRuns \X SessionRuns :
           /\ x[1] # "none" => x[2] = canonImport
           /\ (x[1] # "none" \/ ~importOK(x[2])) => (x[3] = canonRun /\ x[4] = canonRun)}

\* the inputs of one ImportSource call: the namespace, the glob and what the
\* session subprocess does.  A subprocess that is not reached is listed
\* once, and the namespace varies with the first glob only.
ImportInputs ==
    {x \in Namespaces \X SourceGlobs \X ImportRuns :
        /\ x[2] # "/a/b/f.xml" => x[1] = ""
        /\ x[2] = "/a/*/f.xml" =>
              x[3] = [err |-> NoErr,
                      output |-> "Load started\nLoad finished successfully.\n"]}

\* the CPF files ToggleZSTU is called on: with ZSTU off and on, without a
\* newline at the end, with carriage returns, with two ZSTU lines, with none,
\* with a line that only resembles one, empty, and absent
CpfFiles ==
    {[exists |-> TRUE, data |-> d] :
        d \in {"a\nZSTU=0\nb\n", "a\nZSTU=1\nb\n", "a\nZSTU=1", "ZSTU=0\r\nb\r\n",
               "ZSTU=0\nZSTU=1\n", "a\n\nb\n", " ZSTU=1\nb\n", ""}}
        \cup {[exists |-> FALSE, data |-> ""]}

\* the step of ToggleZSTU that fails, and for the three steps that can fail
\* partway, after how much
ToggleInputs ==
    {<<f, 0>> : f \in {"none", "open", "tempfile", "scan", "write", "closeSource",
                       "closeTemp", "create", "openTemp", "copy", "closeTarget",
                       "closeNew", "remove"}}
        \cup {<<f, 1>> : f \in {"scan", "write", "copy"}}

\* the SessionPath a caller gives its Instance: none, an executable, and
\* a command with arguments of its own
SessionPaths == {"", "/p/csession", "/p/iris session -x"}

\* the globs NewImportDescription is given: those of the tests, cut short,
\* a bare file name, and globs with the marker at the start, at the end and
\* doubled; all of them paths in clean form
PathGlobs ==
    {"", "f.xml", "*.xml", "a/f.xml", "/a/b/f.xml", "/a/b/*.xml",
     "/a/*/f.xml", "/a*/**/f.xml", "/a/**/*.xml", "**/*.xml", "/a/**/",
     "/a/**x.xml", "/a/***.xml", "/a/**", "/a/**/b/c.xml", "/a/**/b/**/c.xml",
     "/a/****/f.xml"}

GlobQualifiers == {"", "/t1"}

WorkingDirs == {"/cwd", "/"}

\* the paths the setters of the package are called with
PackagePaths ==
    [CControlPath |-> {defaultCControlPath, "/o/ccontrol"},
     IrisPath |-> {defaultIrisPath, "/o/iris"},
     CSessionPath |-> {defaultCSessionPath, "/o/csession"},
     IrisSessionCommand |-> {defaultIrisSessionCommand, "/o/iris session -q"}]

\* the texts LoadParametersISC is given: those of the tests, cut short, and
\* texts with keys of several dots, with colons in the value, with white
\* space around the parts, and with lines that do not match
ParamTexts ==
    {"",
     "\nng: v\ng1.n1: a\ng2.n3:\ndup: 1\ndup: 2\ndup: 3\n\n",
     "\nng: v\ng1.n1: a\nnope\n\n",
     "g.n: 1\nz: 0\ng.n: 2\n",
     "a.b.c: v\n",
     "u: http://h.x:80\n",
     "t: 1:2\n",
     "  \t\n x.y:  z \n",
     ".n: v\ng.: w\n",
     " :x\n",
     "ok: 1\r\n:v\r\nok: 2\r\n",
     "g.n: 1\n g.n: 2\ng.n : 3"}

\* the identifiers Values and Value are asked with
LookupIds ==
    {<<>>, <<"ng">>, <<"dup">>, <<"g1.n1">>, <<"g1", "n1">>, <<"g2", "n3">>,
     <<"g", "n">>, <<"g.n">>, <<"a.b.c">>, <<"a", "b.c">>, <<"x.y">>,
     <<"g1", "n1", "x">>, <<"g1", "zz">>, <<"zz", "n1">>}

\* the records UpdateFromQList is given: with too few fields, with a port
\* that is not a number at each of the three places, with signed ports, and
\* with 8 to 14 fields, one of them with a status the code does not know
\* and one without a name
ParseRecords ==
    {"",
     "1^2^3^4^5^6^7",
     "I^/d^1^down^c^x^2^3",
     "I^/d^1^running^c^1^x^3^ok",
     "I^/d^1^down^c^1^2^",
     "J^/e^2^down^c^+4^-5^6",
     "^/d^1^down^c^1^2^3",
     "I^/d^1^down, last used x^c^1^2^3",
     "I^/d^1^sign-on inhibited^c^1^2^3^warn",
     "I^/d^1^sign-on inhibited:primary transition, z^c^1^2^3^ok^Cache",
     "J^/e^2^Down,a,b^c^4^5^6^ok^",
     "J^/e^2^running^c^4^5^6^warn^Ensemble^Failover",
     "J^/e^2^running^c^4^5^6^ok^^Disaster Recovery^Connected",
     "J^/e^2^Starting, soon^c^4^5^6^ok^IDP^^^",
     "I^/d^1^Running, since y^c^1^2^3^ok^IRIS^^^/m",
     "J^/e^2^running^c^4^5^6^ok^IRISHealth^^^/m^more"}

(***************************************************************************)
(* The state.                                                              *)
(***************************************************************************)
VARIABLES
    inst,        \* the Instance value the caller holds
    procUser,    \* the user the calling process runs as
    qlistTool,   \* what the qlist tool does when asked now
    paramsFile,  \* the instance's parameters file
    cpf,         \* the CPF file of the instance: whether it exists, its bytes
    tmpFiles,    \* the temporary files that exist
    pc,          \* where a WaitForReady call stands: "idle", "select", "update"
    ctx,         \* the context of that call: "live", "canceled", "deadline"
    last         \* the last call made: its name, the name and status the
                 \* Instance had when it was made, and what the call did

vars == <<inst, procUser, qlistTool, paramsFile, pkg, cpf, tmpFiles, pc, ctx, last>>

Call(op, i, r) ==
    [op |-> op,
     before |-> [Name |-> i.Name, Directory |-> i.Directory, Status |-> i.Status,
                 Attr |-> i.executionSysProcAttr],
     r |-> r]

\* InstanceFromQList, were the Instance returned with the error
InstanceFromQListWithError(pf, qlist) ==
    With(UpdateFromQList(NewInstance(""), pf, qlist), LAMBDA r :
        [inst |-> r.inst, err |-> r.err, nil |-> FALSE])

\* InstanceFromQList: a new Instance updated from the record, or no Instance
\* (nil) and the error
InstanceFromQList(pf, qlist) ==
    With(UpdateFromQList(NewInstance(""), pf, qlist), LAMBDA r :
        IF ~r.err.nil THEN [inst |-> NewInstance(""), err |-> r.err, nil |-> TRUE]
        ELSE [inst |-> r.inst, err |-> NoErr, nil |-> FALSE])

\* The caller holds the Instance LoadInstance gave it, or, when the tool
\* gave no usable record, an Instance it built itself from the name alone.
InitWith(users, tools, cpfs) ==
    /\ procUser \in users
    /\ paramsFile \in ParamFiles
    /\ qlistTool \in tools
    /\ inst = With(InstanceFromQList(paramsFile, qlistTool.out), LAMBDA r :
                  IF qlistTool.err.nil /\ r.err.nil THEN r.inst ELSE NewInstance("I"))
    /\ cpf \in cpfs
    /\ pkg = PackageDefaults
    /\ tmpFiles = {}
    /\ pc = "idle"
    /\ ctx = "live"
    /\ last = Call("LoadInstance", NewInstance(""), [err |-> NoErr])

\* The lifecycle never reads the user of the process.
Init == InitWith({"root"}, QlistTools, {[exists |-> TRUE, data |-> "ZSTU=1\n"]})

\* The pipeline never asks the qlist tool; the Instance it is given is of
\* either product family.
ExecInit ==
    InitWith(ProcessUsers,
             {t \in QlistTools : t.err.nil /\ Len(Split(t.out, "^")) \in {8, 13}},
             {[exists |-> TRUE, data |-> "ZSTU=1\n"]})

\* a call of a synchronous operation leaves no WaitForReady call behind
Returned == pc' = "idle" /\ ctx' = "live"

Start ==
    /\ pc = "idle"
    /\ \E run \in ControlRuns :
       \E tool1 \in IF run.err.nil THEN QlistTools ELSE {qlistTool} :
         \E r \in {StartOp(inst, paramsFile, run, qlistTool, tool1)} :
             /\ inst' = r.inst
             /\ qlistTool' = r.tool
             /\ last' = Call("Start", inst, r)
    /\ Returned
    /\ UNCHANGED <<procUser, paramsFile, pkg, cpf, tmpFiles>>

Stop ==
    /\ pc = "idle"
    /\ \E run \in ControlRuns :
       \E tool1 \in IF run.err.nil THEN QlistTools ELSE {qlistTool} :
         \E r \in {StopOp(inst, paramsFile, run, qlistTool, tool1)} :
             /\ inst' = r.inst
             /\ qlistTool' = r.tool
             /\ last' = Call("Stop", inst, r)
    /\ Returned
    /\ UNCHANGED <<procUser, paramsFile, pkg, cpf, tmpFiles>>

UpdateCall ==
    /\ pc = "idle"
    /\ \E u \in {Update(inst, paramsFile, qlistTool)} :
           /\ inst' = u.inst
           /\ last' = Call("Update", inst, u)
    /\ Returned
    /\ UNCHANGED <<procUser, qlistTool, paramsFile, pkg, cpf, tmpFiles>>

ExecuteAsUser ==
    /\ pc = "idle"
    /\ \E execUser \in ExecUsers :
         \E r \in {ExecuteAsUserOp(inst, procUser, execUser)} :
             /\ inst' = r.inst
             /\ last' = Call("ExecuteAsUser", inst, r)
    /\ Returned
    /\ UNCHANGED <<procUser, qlistTool, paramsFile, pkg, cpf, tmpFiles>>

ExecuteAsManager ==
    /\ pc = "idle"
    /\ \E r \in {ExecuteAsManagerOp(inst, paramsFile, procUser)} :
           /\ inst' = r.inst
           /\ last' = Call("ExecuteAsManager", inst, r)
    /\ Returned
    /\ UNCHANGED <<procUser, qlistTool, paramsFile, pkg, cpf, tmpFiles>>

ExecuteAsCurrentUser ==
    /\ pc = "idle"
    /\ \E r \in {ExecuteAsCurrentUserOp(inst)} :
           /\ inst' = r.inst
           /\ last' = Call("ExecuteAsCurrentUser", inst, r)
    /\ Returned
    /\ UNCHANGED <<procUser, qlistTool, paramsFile, pkg, cpf, tmpFiles>>

\* os.CreateTemp hands out a name no existing file has; which of the unused
\* names it is makes no difference to the call, so the least one is taken.
ExecuteWithOutput ==
    /\ pc = "idle"
    /\ \E namespace \in Namespaces, x \in ExecuteInputs,
          n \in {m \in TmpNames \ tmpFiles : \A k \in TmpNames \ tmpFiles : m <= k} :
         \E r \in {ExecuteWithOutputOp(inst, namespace, tmpFiles, n,
                                      x[1], x[2], x[3], x[4])} :
             /\ tmpFiles' = r.files
             /\ last' = Call("ExecuteWithOutput", inst, r)
    /\ Returned
    /\ UNCHANGED <<inst, procUser, qlistTool, paramsFile, pkg, cpf>>

\* A call of SessionCommand, on the Instance as it is but for the
\* SessionPath the caller has set on it for the call.
SessionCommandCall ==
    /\ pc = "idle"
    /\ \E sp \in SessionPaths, namespace \in Namespaces, command \in {"", "do ^X"} :
         \E r \in {SessionCommand([inst EXCEPT !.SessionPath = sp], namespace, command)} :
             last' = Call("SessionCommand", inst,
                          [cmd |-> r, sessionPath |-> sp, namespace |-> namespace,
                           command |-> command, err |-> NoErr])
    /\ Returned
    /\ UNCHANGED <<inst, procUser, qlistTool, paramsFile, pkg, cpf, tmpFiles>>

ImportSourceCall ==
    /\ pc = "idle"
    /\ \E x \in ImportInputs :
         \E r \in {ImportSource(inst, x[1], x[2], "", x[3])} :
             last' = Call("ImportSource", inst, r)
    /\ Returned
    /\ UNCHANGED <<inst, procUser, qlistTool, paramsFile, pkg, cpf, tmpFiles>>

(***************************************************************************)
(* WaitForReady: the loop of WaitForReadyWithInterval with the 100ms       *)
(* interval.  At "select" the call is blocked in the select statement;     *)
(* the timer of time.After is created by that statement, so it has not     *)
(* fired when the statement is entered and the first of the two events to  *)
(* happen decides the case.  At "update" the call is inside i.Update().    *)
(***************************************************************************)
CtxErr(c) ==
    IF c = "canceled" THEN Err("context canceled")
    ELSE IF c = "deadline" THEN Err("context deadline exceeded")
    ELSE NoErr

\* WaitForReady, were the first poll made before the first tick
WaitForReadyPollFirst ==
    /\ pc = "idle"
    /\ pc' = "update"
    /\ ctx' \in {"live", "canceled", "deadline"}
    /\ last' = Call("WaitForReady", inst, [err |-> NoErr, updates |-> 0, ticks |-> 0, failed |-> FALSE])
    /\ UNCHANGED <<inst, procUser, qlistTool, paramsFile, pkg, cpf, tmpFiles>>

\* the call enters the loop and blocks in the select statement; ticks counts
\* the timers that fired during the call, updates the calls of Update
WaitForReady ==
    /\ pc = "idle"
    /\ pc' = "select"
    /\ ctx' \in {"live", "canceled", "deadline"}
    /\ last' = Call("WaitForReady", inst, [err |-> NoErr, updates |-> 0, ticks |-> 0, failed |-> FALSE])
    /\ UNCHANGED <<inst, procUser, qlistTool, paramsFile, pkg, cpf, tmpFiles>>

\* case <-ctx.Done()
WaitCtxDone ==
    /\ pc = "select"
    /\ ctx # "live"
    /\ pc' = "idle"
    /\ last' = [last EXCEPT !.r.err = CtxErr(ctx)]
    /\ UNCHANGED <<inst, procUser, qlistTool, paramsFile, pkg, cpf, tmpFiles, ctx>>

\* WaitTick, were the timer case taken whatever the context
WaitTickAnyCtx ==
    /\ pc = "select"
    /\ pc' = "update"
    /\ last' = [last EXCEPT !.r.ticks = IF @ < MaxPolls THEN @ + 1 ELSE @]
    /\ UNCHANGED <<inst, procUser, qlistTool, paramsFile, pkg, cpf, tmpFiles, ctx>>

\* case <-time.After(interval): the timer fires while the context is live
WaitTick ==
    /\ pc = "select"
    /\ ctx = "live"
    /\ pc' = "update"
    /\ last' = [last EXCEPT !.r.ticks = IF @ < MaxPolls THEN @ + 1 ELSE @]
    /\ UNCHANGED <<inst, procUser, qlistTool, paramsFile, pkg, cpf, tmpFiles, ctx>>

\* WaitPoll, were the loop to go on after a poll that observed ready
WaitPollOn ==
    /\ pc = "update"
    /\ \E u \in {Update(inst, paramsFile, qlistTool)} :
           /\ inst' = u.inst
           /\ last' = [last EXCEPT !.r.updates = IF @ < MaxPolls THEN @ + 1 ELSE @,
                                   !.r.failed = ~u.err.nil]
    /\ pc' = "select"
    /\ UNCHANGED <<procUser, qlistTool, paramsFile, pkg, cpf, tmpFiles, ctx>>

\* the body of the timer case: _ = i.Update(), then the check of Ready;
\* failed tells whether that Update returned an error, which the code drops
WaitPoll ==
    /\ pc = "update"
    /\ \E u \in {Update(inst, paramsFile, qlistTool)} :
           /\ inst' = u.inst
           /\ pc' = IF Ready(u.inst.Status) THEN "idle" ELSE "select"
           /\ last' = [last EXCEPT !.r.updates = IF @ < MaxPolls THEN @ + 1 ELSE @,
                                   !.r.failed = ~u.err.nil]
    /\ UNCHANGED <<procUser, qlistTool, paramsFile, pkg, cpf, tmpFiles, ctx>>

\* the caller cancels the context, or its deadline passes, during the call
CtxEnds ==
    /\ pc # "idle"
    /\ ctx = "live"
    /\ ctx' \in {"canceled", "deadline"}
    /\ UNCHANGED <<inst, procUser, qlistTool, paramsFile, pkg, cpf, tmpFiles, pc, last>>

\* the instance changes state by itself or by another administrator's hand
EnvChange ==
    /\ qlistTool' \in QlistTools \ {qlistTool}
    /\ UNCHANGED <<inst, procUser, paramsFile, pkg, cpf, tmpFiles, pc, ctx, last>>

\* The lifecycle of the instance: start, stop and refresh.
Next ==
    \/ Start
    \/ Stop
    \/ UpdateCall
    \/ EnvChange

Spec == Init /\ [][Next]_vars

\* Waiting for the instance: calls of WaitForReady on the Instance as it was
\* loaded, while the instance and the context change.
WaitNext ==
    \/ WaitForReady
    \/ WaitCtxDone
    \/ WaitTick
    \/ WaitPoll
    \/ CtxEnds
    \/ EnvChange

\* The goroutine in WaitForReady keeps running, and time passes: a timer
\* that can fire does, and a subprocess that was started ends.
WaitSpec ==
    /\ Init
    /\ [][WaitNext]_vars
    /\ WF_vars(WaitCtxDone) /\ WF_vars(WaitTick) /\ WF_vars(WaitPoll)

\* The privilege context and the execution pipeline.  They read the
\* Instance the lifecycle leaves and change only its credential and the
\* temporary files.
ExecNext ==
    \/ ExecuteAsUser
    \/ ExecuteAsManager
    \/ ExecuteAsCurrentUser
    \/ ExecuteWithOutput
    \/ ImportSourceCall
    \/ SessionCommandCall

ExecSpec == ExecInit /\ [][ExecNext]_vars

\* the number of UpdateFromQList calls on the Instance the caller holds
Updates ==
    IF last.op \in {"UpdateFromQList", "InstanceFromQList"} THEN last.r.updates
    ELSE 0

\* A call of UpdateFromQList on the Instance the caller holds.  The record
\* of the call keeps the record given and the Instance as it was.
UpdateFromQListCall ==
    /\ pc = "idle"
    /\ Updates < MaxUpdates
    /\ \E q \in ParseRecords :
         \E r \in {UpdateFromQList(inst, paramsFile, q)} :
             /\ inst' = r.inst
             /\ last' = Call("UpdateFromQList", inst,
                             [err |-> r.err, nil |-> FALSE, qlist |-> q, prior |-> inst,
                              updates |-> Updates + 1])
    /\ Returned
    /\ UNCHANGED <<procUser, qlistTool, paramsFile, pkg, cpf, tmpFiles>>

\* A call of InstanceFromQList whose result the caller takes for its
\* Instance; when the call returns no Instance the caller keeps the one it
\* has.
InstanceFromQListCall ==
    /\ pc = "idle"
    /\ \E q \in ParseRecords :
         \E r \in {InstanceFromQList(paramsFile, q)} :
             /\ inst' = IF r.nil THEN inst ELSE r.inst
             /\ last' = Call("InstanceFromQList", inst,
                             [err |-> r.err, nil |-> r.nil, qlist |-> q,
                              prior |-> NewInstance(""),
                              updates |-> IF r.nil THEN Updates ELSE 0])
    /\ Returned
    /\ UNCHANGED <<procUser, qlistTool, paramsFile, pkg, cpf, tmpFiles>>

\* Parsing reads the records it is given, never the tool: the Instance the
\* caller starts with is one it built from the name alone.
ParseInit ==
    InitWith({"root"}, {t \in QlistTools : ~t.err.nil},
             {[exists |-> TRUE, data |-> "ZSTU=1\n"]})

ParseSpec == ParseInit /\ [][UpdateFromQListCall \/ InstanceFromQListCall]_vars

\* A call of LoadParametersISC on the text of a parameters file.  The
\* caller keeps the store it returns.
LoadParametersISCCall ==
    /\ pc = "idle"
    /\ \E text \in ParamTexts :
         \E r \in {LoadParametersISC(text)} :
             last' = Call("LoadParametersISC", inst,
                          [text |-> text, pi |-> r.pi, err |-> r.err, nil |-> r.nil,
                           ids |-> <<>>, values |-> <<>>, value |-> ""])
    /\ Returned
    /\ UNCHANGED <<inst, procUser, qlistTool, paramsFile, pkg, cpf, tmpFiles>>

\* A call of Values and of Value with the same identifiers on the store the
\* caller was given.
ValueCall ==
    /\ pc = "idle"
    /\ last.op \in {"LoadParametersISC", "Value"}
    /\ ~last.r.nil
    /\ \E ids \in LookupIds :
         last' = Call("Value", inst,
                      [last.r EXCEPT !.ids = ids,
                                     !.values = ValuesOf(last.r.pi, ids),
                                     !.value = ValueOf(last.r.pi, ids)])
    /\ Returned
    /\ UNCHANGED <<inst, procUser, qlistTool, paramsFile, pkg, cpf, tmpFiles>>

\* Reading of parameters files.
ParamsSpec == ParseInit /\ [][LoadParametersISCCall \/ ValueCall]_vars

\* A call of NewImportDescription in a process whose working directory is
\* cwd.
NewImportDescriptionCall ==
    /\ pc = "idle"
    /\ \E glob \in PathGlobs, q \in GlobQualifiers, cwd \in WorkingDirs :
         \E r \in {NewImportDescription(glob, q, cwd)} :
             last' = Call("NewImportDescription", inst,
                          [glob |-> glob, qualifiers |-> q, cwd |-> cwd, id |-> r,
                           err |-> r.err])
    /\ Returned
    /\ UNCHANGED <<inst, procUser, qlistTool, paramsFile, pkg, cpf, tmpFiles>>

\* Reading of import globs.
GlobSpec == ParseInit /\ [][NewImportDescriptionCall]_vars

\* A call of SetCControlPath, SetIrisPath, SetCSessionPath or
\* SetIrisSessionCommand, each of which assigns its package-level variable.
SetPath ==
    /\ pc = "idle"
    /\ \E which \in DOMAIN PackagePaths :
         \E path \in PackagePaths[which] :
             /\ pkg' = [pkg EXCEPT ![which] = path]
             /\ last' = Call("Set" \o which, inst,
                             [which |-> which, path |-> path, err |-> NoErr])
    /\ Returned
    /\ UNCHANGED <<inst, procUser, qlistTool, paramsFile, cpf, tmpFiles>>

\* The Instances the setters are called beside: one of each product.
PkgInit ==
    InitWith({"root"}, {t \in QlistTools : t.err.nil /\ Len(Split(t.out, "^")) \in {8, 13}},
             {[exists |-> TRUE, data |-> "ZSTU=1\n"]})

\* Calls of the setters of the package between SessionCommand calls on
\* Instances.
PkgSpec == PkgInit /\ [][SetPath \/ SessionCommandCall]_vars

\* A call of DetermineManager on the Instance.
DetermineManagerCall ==
    /\ pc = "idle"
    /\ last' = Call("DetermineManager", inst, DetermineManager(paramsFile))
    /\ Returned
    /\ UNCHANGED <<inst, procUser, qlistTool, paramsFile, pkg, cpf, tmpFiles>>

\* A call of DetermineOwner on the Instance.
DetermineOwnerCall ==
    /\ pc = "idle"
    /\ last' = Call("DetermineOwner", inst, DetermineOwner(inst, paramsFile))
    /\ Returned
    /\ UNCHANGED <<inst, procUser, qlistTool, paramsFile, pkg, cpf, tmpFiles>>

\* An Instance of each product beside each parameters file.
OwnerInit ==
    /\ procUser = "root"
    /\ paramsFile \in OwnerFiles
    /\ qlistTool \in {[err |-> NoErr, out |-> r] : r \in ProductRecords}
    /\ inst = InstanceFromQList(paramsFile, qlistTool.out).inst
    /\ cpf = [exists |-> TRUE, data |-> "ZSTU=1\n"]
    /\ pkg = PackageDefaults
    /\ tmpFiles = {}
    /\ pc = "idle"
    /\ ctx = "live"
    /\ last = Call("LoadInstance", NewInstance(""), [err |-> NoErr])

\* Reading of the owner and the manager of an instance.
OwnerSpec == OwnerInit /\ [][DetermineManagerCall \/ DetermineOwnerCall]_vars

\* A call of ToggleZSTU on the CPF file.  The record of the call also keeps
\* what the call before it, when that was a ToggleZSTU too, was given and
\* returned.
ToggleZSTU ==
    /\ pc = "idle"
    /\ \E onOrOff \in BOOLEAN, x \in ToggleInputs,
          n \in {m \in TmpNames \ tmpFiles : \A k \in TmpNames \ tmpFiles : m <= k} :
         \E r \in {ToggleZSTUOp(cpf, onOrOff, tmpFiles, n, x[1], x[2])} :
             /\ cpf' = r.cpf
             /\ tmpFiles' = r.files
             /\ last' = [op |-> "ToggleZSTU",
                         before |-> Call("ToggleZSTU", inst, r).before,
                         r |-> r,
                         onOrOff |-> onOrOff,
                         input |-> cpf,
                         failAt |-> x[1],
                         prev |-> IF last.op = "ToggleZSTU"
                                  THEN [ok |-> last.r.err.nil /\ last.failAt = "none",
                                        input |-> last.input,
                                        originalValue |-> last.r.originalValue]
                                  ELSE [ok |-> FALSE, input |-> cpf,
                                        originalValue |-> FALSE]]
    /\ Returned
    /\ UNCHANGED <<inst, procUser, qlistTool, paramsFile, pkg>>

\* ToggleZSTU reads nothing but the file: the Instance is a stopped one.
ToggleInit ==
    InitWith({"root"}, {t \in QlistTools : t.err.nil /\ Len(Split(t.out, "^")) = 8},
             CpfFiles)

ToggleSpec == ToggleInit /\ [][ToggleZSTU]_vars

(***************************************************************************)
(* DatInfo.  The databases of the CPF file are a set of entries, one for   *)
(* each key of the map the code builds.  The host tells what os.Stat and   *)
(* the user lookups do for the DAT file of each database.                  *)
(***************************************************************************)
CacheDatName == "CACHE.DAT"
IrisDatName == "IRIS.DAT"
DatsSectionHeader == "[Databases]"

\* Instance.DetermineISCDatFileName
DetermineISCDatFileName(i) == IF i.Product = Iris THEN IrisDatName ELSE CacheDatName

\* regexp.ReplaceAllString(line, "") for extraInfoPattern, (1+|,+): the
\* line without any of its characters 1 and ","
RECURSIVE removeExtraInfo(_)
removeExtraInfo(line) ==
    IF line = "" THEN ""
    ELSE (IF Char(line, 1) \in {"1", ","} THEN "" ELSE Char(line, 1))
            \o removeExtraInfo(From(line, 2))

\* the Dat the loop builds for a database path: what os.Stat of its DAT
\* file and the lookups of its owner tell
datOf(i, path, host) ==
    With(path \o DetermineISCDatFileName(i), LAMBDA iscDatPath :
        IF iscDatPath \in host.absent
        THEN [err |-> NoErr,
              dat |-> [Path |-> path, Permission |-> "", Owner |-> "", Group |-> "",
                       Exists |-> FALSE]]
        ELSE IF iscDatPath \in host.denied
        THEN [err |-> Err("stat " \o iscDatPath \o ": permission denied"), dat |-> <<>>]
        ELSE IF iscDatPath \in host.unowned
        THEN [err |-> Err("user: unknown userid 4242"), dat |-> <<>>]
        ELSE [err |-> NoErr,
              dat |-> [Path |-> path, Permission |-> "-rw-rw----", Owner |-> "cacheusr",
                       Group |-> "cacheusr", Exists |-> TRUE]])

\* the scanner loop of DatInfo over the lines from the k-th on; a line of
\* the section without "=" indexes past the end of its split, which panics
RECURSIVE datLoop(_, _, _, _, _, _)
datLoop(i, host, lines, k, inDbSection, dats) ==
    IF k > Len(lines) THEN [err |-> NoErr, nil |-> FALSE, panic |-> FALSE, dats |-> dats]
    ELSE
    With(removeExtraInfo(lines[k]), LAMBDA line :
        IF inDbSection
        THEN IF TrimSpace(line) = ""
             THEN [err |-> NoErr, nil |-> FALSE, panic |-> FALSE, dats |-> dats]
             ELSE
             With(SplitScan(line, "="), LAMBDA splitLine :
                 IF Len(splitLine) < 2
                 THEN [err |-> Err("index out of range [1] with length 1"),
                       nil |-> TRUE, panic |-> TRUE, dats |-> {}]
                 ELSE
                 With(datOf(i, splitLine[2], host), LAMBDA d :
                     IF ~d.err.nil
                     THEN [err |-> d.err, nil |-> TRUE, panic |-> FALSE, dats |-> {}]
                     ELSE datLoop(i, host, lines, k + 1, TRUE,
                                  {e \in dats : e.key # splitLine[1]}
                                      \cup {[key |-> splitLine[1], dat |-> d.dat]})))
        ELSE datLoop(i, host, lines, k + 1, line = DatsSectionHeader, dats))

\* Instance.DatInfo over the CPF file
DatInfo(i, cpfFile, host) ==
    IF ~cpfFile.exists
    THEN [err |-> Err("open cache.cpf: no such file or directory"),
          nil |-> TRUE, panic |-> FALSE, dats |-> {}]
    ELSE datLoop(i, host, ScanLines(cpfFile.data), 1, FALSE, {})

\* the lines of the database section of the CPF files DatInfo is called on
DatLines == {"USER=/u/", "DB=/d/,,,1", "DB1=/d1/", "USER=/v/", "junk"}

\* the CPF files DatInfo is called on: lines before the header or none, a
\* header, two lines, a blank line or a line of spaces or none, and lines
\* after it or none
DatFiles ==
    {[exists |-> FALSE, data |-> ""], [exists |-> TRUE, data |-> "[Startup]\nX=/x/\n"]}
    \cup
    {[exists |-> TRUE,
      data |-> pre \o DatsSectionHeader \o "\n" \o l1 \o "\n" \o l2 \o "\n" \o end] :
        pre \in {"", "X=/x/\n"}, l1 \in DatLines, l2 \in DatLines,
        end \in {"", "\nY=/y/\n", "  \n[Databases]\nY=/y/\n"}}

\* what the host tells of the DAT files
DatHosts ==
    {[absent |-> {}, denied |-> {}, unowned |-> {}],
     [absent |-> {"/u/CACHE.DAT"}, denied |-> {}, unowned |-> {}],
     [absent |-> {}, denied |-> {"/d/CACHE.DAT"}, unowned |-> {}],
     [absent |-> {}, denied |-> {}, unowned |-> {"/v/CACHE.DAT"}]}

\* A call of DatInfo on the Instance.
DatInfoCall ==
    /\ pc = "idle"
    /\ \E host \in DatHosts :
         \E r \in {DatInfo(inst, cpf, host)} :
             last' = Call("DatInfo", inst, r @@ [host |-> host])
    /\ Returned
    /\ UNCHANGED <<inst, procUser, qlistTool, paramsFile, pkg, cpf, tmpFiles>>

\* DatInfo reads nothing but the CPF file and the host.
DatInit ==
    InitWith({"root"}, {t \in QlistTools : t.err.nil /\ Len(Split(t.out, "^")) = 8},
             DatFiles)

DatSpec == DatInit /\ [][DatInfoCall]_vars

(***************************************************************************)
(* Properties.  They read the record of the last call: the status the      *)
(* Instance had when the call was made, the subprocesses the call issued,  *)
(* its re-queries and the error it returned.  The statuses are written out *)
(* as the qlist tool prints them.                                          *)
(***************************************************************************)
\* the last call made was op, and it has returned
Did(op) == pc = "idle" /\ last.op = op

ReadyStatuses == {"running", "running on node ? (cache.ids missing)"}
InhibitedStatuses == {"sign-on inhibited", "sign-on inhibited:primary transition"}
UpStatuses == ReadyStatuses \cup InhibitedStatuses

\* the last call, a Start or a Stop, re-queried and the re-query succeeded
Requeried == last.r.updates = 1 /\ last.r.refresh.nil

\* the status field of the record the qlist tool prints now, as Update reads it
ToolStatus(q) ==
    IF Len(Split(q.out, "^")) < 4 THEN ""
    ELSE qlistStatus(Split(q.out, "^")[4]).status

\* C1: when Start returns no error, it re-queried and the status the
\* re-query obtained is running or running-degraded; when the re-query
\* succeeded and the status is anything else, Start returns an error that
\* names the instance and the status, whether the start action ran or not.
C1_StartVerifiesReady ==
    Did("Start") =>
        /\ last.r.err.nil => (Requeried /\ inst.Status \in ReadyStatuses)
        /\ (Requeried /\ inst.Status \notin ReadyStatuses) =>
              /\ ~last.r.err.nil
              /\ Contains(last.r.err.text, "name: " \o inst.Name)
              /\ Contains(last.r.err.text, "status: " \o inst.Status)

\* Start ran the start action, which exited zero, and the re-query found the
\* instance with sign-on inhibited
C1_Witness ==
    /\ Did("Start")
    /\ last.r.step = "ran"
    /\ Requeried
    /\ inst.Status = "sign-on inhibited"
    /\ ~last.r.err.nil

\* C2: when Stop returns no error, it re-queried and the status the re-query
\* obtained is down; when the re-query succeeded and the status is anything
\* else, recognized or not, Stop returns an error, also when the stop action
\* exited zero or was skipped.
C2_StopVerifiesDown ==
    Did("Stop") =>
        /\ last.r.err.nil => (Requeried /\ inst.Status = "down")
        /\ (Requeried /\ inst.Status # "down") => ~last.r.err.nil

\* Stop ran the stop action, which exited zero, and the re-query found a
\* status the library does not recognize
C2_Witness ==
    /\ Did("Stop")
    /\ last.r.step = "ran"
    /\ Requeried
    /\ inst.Status = "starting"
    /\ ~last.r.err.nil

\* C3: Stop issues the stop action only when the status the Instance holds
\* is up, and its arguments are stop, the name, the bypass flag exactly when
\* that status is one of the two sign-on inhibited ones, and the quiet flag
\* last; with a status that is not up no subprocess is issued.
C3_StopActionArguments ==
    Did("Stop") =>
        /\ last.before.Status \notin UpStatuses => last.r.cmds = <<>>
        /\ last.r.cmds # <<>> =>
              /\ Len(last.r.cmds) = 1
              /\ last.before.Status \in UpStatuses
              /\ last.r.cmds[1].args =
                    IF last.before.Status \in InhibitedStatuses
                    THEN <<"stop", last.before.Name, "bypass", "quietly">>
                    ELSE <<"stop", last.before.Name, "quietly">>

\* Stop was called with sign-on inhibited and issued the stop action
C3_Witness ==
    /\ Did("Stop")
    /\ last.before.Status = "sign-on inhibited:primary transition"
    /\ last.r.cmds # <<>>

\* a re-query made now would leave the Instance with a ready status
PollObservesReady == Update(inst, paramsFile, qlistTool).inst.Status \in ReadyStatuses

\* the qlist tool prints a record whose status is a ready one
ToolReady == qlistTool.err.nil /\ ToolStatus(qlistTool) \in ReadyStatuses

\* a step that ends a poll of WaitForReady
PollEnds == pc = "update" /\ pc' # "update"

C5_ContextDoneEndsTheWait ==
    /\ [][(pc = "select" /\ ctx # "live") =>
            \/ /\ pc' = "idle"
               /\ last'.r.err.text = (IF ctx = "canceled" THEN "context canceled"
                                      ELSE "context deadline exceeded")
               /\ ~last'.r.err.nil
               /\ last'.r.updates = last.r.updates
               /\ inst' = inst
            \/ /\ pc' = pc
               /\ last' = last
               /\ inst' = inst]_vars
    /\ [](Did("WaitForReady") /\ last.r.err.nil =>
            (inst.Status \in ReadyStatuses /\ last.r.updates >= 1))
    /\ (pc # "idle" /\ ctx # "live") ~> (pc = "idle")

\* WaitForReady polled, the context ended, and the call returned its error
C5_Witness ==
    /\ Did("WaitForReady")
    /\ ~last.r.err.nil
    /\ last.r.updates >= 1
    /\ ctx = "canceled"

\* C5 as stated: a call whose context ended before a poll observed a ready
\* status never returns success
C5_AsStated == ~(Did("WaitForReady") /\ last.r.err.nil /\ ctx # "live")

\* C6 (as amended): Start issues no start action when the status the
\* Instance holds is not down; and when that status is running or
\* running-degraded and the re-query succeeds and reports it again, Start
\* returns no error.
C6_StartOnReadyIsNoOp ==
    Did("Start") =>
        /\ last.before.Status # "down" =>
              (last.r.cmds = <<>> /\ last.r.step = "skipped")
        /\ (last.before.Status \in ReadyStatuses /\ Requeried
              /\ inst.Status = last.before.Status) => last.r.err.nil

\* Start on a running-degraded instance skipped the action and succeeded
C6_Witness ==
    /\ Did("Start")
    /\ last.before.Status = "running on node ? (cache.ids missing)"
    /\ last.r.step = "skipped"
    /\ Requeried
    /\ inst.Status = last.before.Status
    /\ last.r.err.nil

\* C6 as stated: the same for every up status
C6_AsStated ==
    Did("Start") =>
        /\ last.before.Status # "down" => last.r.cmds = <<>>
        /\ (last.before.Status \in UpStatuses /\ Requeried
              /\ inst.Status = last.before.Status) => last.r.err.nil

\* C7 (as amended): a call of Start or Stop whose action step does not fail
\* re-queries exactly once, whether the action ran or was skipped, and the
\* re-query reads the qlist tool as it is after the action; a call whose
\* action step fails returns its error without a re-query.
C7_RequeryAfterActionStep ==
    /\ []((Did("Start") \/ Did("Stop")) =>
            /\ last.r.step \in {"skipped", "ran"} => last.r.updates = 1
            /\ last.r.step = "failed" => (last.r.updates = 0 /\ ~last.r.err.nil))
    /\ [][(last' # last /\ last'.op \in {"Start", "Stop"} /\ last'.r.updates = 1
             /\ last'.r.refresh.nil) =>
            inst'.Status = ToolStatus(qlistTool')]_vars

\* Start skipped the action and re-queried
C7_Witness ==
    /\ Did("Start")
    /\ last.r.step = "skipped"
    /\ last.r.updates = 1

\* C7 as stated: every call of Start or Stop re-queries
C7_AsStated == (Did("Start") \/ Did("Stop")) => last.r.updates = 1

\* C8: when the start or stop action exits non-zero, the error returned
\* carries the output captured from the action.
C8_ActionErrorCarriesOutput ==
    (Did("Start") \/ Did("Stop")) =>
        \A k \in 1..Len(last.r.cmds) :
            ~last.r.cmds[k].err.nil =>
                /\ ~last.r.err.nil
                /\ Contains(last.r.err.text, last.r.cmds[k].output)

\* a subprocess that deletes a routine
IsRoutineDeletion(cmd) ==
    Contains(cmd.args[Len(cmd.args)], "##class(%Routine).Delete(")

C10_TemporaryFileRemoved ==
    Did("ExecuteWithOutput") => last.r.tmp \notin tmpFiles

\* the import subprocess of the last call exited zero without the marker
ImportExitedZeroUnmarked ==
    /\ last.r.cmds # <<>>
    /\ last.r.cmds[1].err.nil
    /\ ~Contains(last.r.cmds[1].output, "Load finished successfully.")

\* C11: ImportSource returns no error only when its session subprocess
\* exited zero and its output contains "Load finished successfully."; when
\* it exited zero without the marker, ImportSource returns the load-failed
\* error together with the output, and ExecuteWithOutput returns that error
\* having issued the import subprocess only, not the entry point.
C11_ImportNeedsMarker ==
    /\ Did("ImportSource") =>
          /\ last.r.err.nil =>
                /\ Len(last.r.cmds) = 1
                /\ last.r.cmds[1].err.nil
                /\ Contains(last.r.cmds[1].output, "Load finished successfully.")
          /\ ImportExitedZeroUnmarked =>
                /\ last.r.err = ErrLoadFailed
                /\ last.r.out = last.r.cmds[1].output
    /\ Did("ExecuteWithOutput") =>
          /\ last.r.imported =>
                /\ last.r.cmds[1].err.nil
                /\ Contains(last.r.cmds[1].output, "Load finished successfully.")
          /\ ImportExitedZeroUnmarked =>
                /\ last.r.err = ErrLoadFailed
                /\ Len(last.r.cmds) = 1
                /\ ~last.r.imported

\* ExecuteWithOutput returned the load-failed error after an import that
\* exited zero
C11_Witness ==
    /\ Did("ExecuteWithOutput")
    /\ ImportExitedZeroUnmarked
    /\ last.r.err = ErrLoadFailed

\* the lines of a file: its text between newlines
FileLines(f) == SplitScan(f.data, "\n")

ZSTULines == {"ZSTU=0", "ZSTU=1"}

\* C12: ToggleZSTU changes the bytes of the CPF file only when the temporary
\* copy was written completely and without error; when the writing of the
\* temporary copy fails partway, the CPF file keeps the bytes it had before
\* the call.
C12_OriginalKeptUnlessCopyComplete ==
    Did("ToggleZSTU") =>
        /\ cpf # last.input => last.r.complete
        /\ (last.failAt \in {"scan", "write"} /\ ~last.r.complete) => cpf = last.input

\* C13: a ToggleZSTU to x followed by a ToggleZSTU to the value the first
\* returned leaves the file with the bytes it had before the first.
C13_ToggleRoundTrip ==
    (Did("ToggleZSTU") /\ last.failAt = "none" /\ last.r.err.nil /\ last.prev.ok
        /\ last.onOrOff = last.prev.originalValue) => cpf = last.prev.input

\* C14: a ToggleZSTU to b that returns no error leaves the file with the
\* lines it had, in their order, each line that was exactly ZSTU=0 or ZSTU=1
\* now ZSTU=b and every other line as it was; it returns the value of the
\* last such line; and when that value is b already the bytes of the file
\* are unchanged.
C14_EveryZSTULineRewritten ==
    (Did("ToggleZSTU") /\ last.r.err.nil) =>
        /\ Len(FileLines(cpf)) = Len(FileLines(last.input))
        /\ \A k \in 1..Len(FileLines(last.input)) :
              k <= Len(FileLines(cpf)) =>
                  FileLines(cpf)[k] =
                      IF FileLines(last.input)[k] \in ZSTULines
                      THEN (IF last.onOrOff THEN "ZSTU=1" ELSE "ZSTU=0")
                      ELSE FileLines(last.input)[k]
        /\ \A k \in 1..Len(FileLines(last.input)) :
              (/\ FileLines(last.input)[k] \in ZSTULines
               /\ \A j \in (k + 1)..Len(FileLines(last.input)) :
                     FileLines(last.input)[j] \notin ZSTULines) =>
                  /\ last.r.originalValue = (FileLines(last.input)[k] = "ZSTU=1")
                  /\ last.r.originalValue = last.onOrOff => cpf = last.input

\* the user database resolves the name to a numeric uid and gid
Resolvable(name) ==
    \E u \in UserDB : u.Username = name /\ AllDigits(u.Uid) /\ AllDigits(u.Gid)

SessionString ==
    IF last.r.sessionPath # "" THEN last.r.sessionPath
    ELSE IF inst.Product = Iris THEN "iris session" ELSE "csession"

\* C16: the command SessionCommand builds has as executable the first
\* space-separated token of the session command string, and as arguments
\* the other tokens of that string, the instance name, "-U" and the
\* namespace exactly when the namespace is not empty, and the command
\* exactly when it is not empty, in that order; it carries the credential
\* stored on the Instance, or none when none is stored.
C16_SessionCommandArguments ==
    Did("SessionCommand") =>
        /\ last.r.cmd.path = Head(SplitScan(SessionString, " "))
        /\ last.r.cmd.args =
              Tail(SplitScan(SessionString, " ")) \o <<inst.Name>>
                 \o (IF last.r.namespace # "" THEN <<"-U", last.r.namespace>> ELSE <<>>)
                 \o (IF last.r.command # "" THEN <<last.r.command>> ELSE <<>>)
        /\ last.r.cmd.attr = inst.executionSysProcAttr

\* a SessionCommand call on an Instance with arguments in its SessionPath, a
\* namespace, a command and a stored credential
C16_Witness ==
    /\ Did("SessionCommand")
    /\ last.r.sessionPath = "/p/iris session -x"
    /\ last.r.namespace = "USER"
    /\ last.r.command # ""
    /\ inst.executionSysProcAttr.set
    /\ last.r.cmd.args = <<"session", "-x", inst.Name, "-U", "USER", "do ^X">>

\* the statuses the predicates are asked about: the one the Instance holds,
\* the one it held when the last call was made, and strings next to the
\* recognized ones
StatusInputs ==
    {inst.Status, last.before.Status}
        \cup UpStatuses
        \cup {"", "down", "unknown", "Running", "running ", "DOWN", "down,",
               "sign-on inhibited:", "running on node ?"}

\* C17: Handled holds of running, sign-on inhibited, sign-on
\* inhibited:primary transition, down and running on node ? (cache.ids
\* missing) and of no other string; Ready of running and the cache.ids
\* one only; Up of the handled ones but down; Down of down only;
\* RequiresBypass of the two sign-on inhibited ones only.
C17_StatusPredicateTables ==
    \A s \in StatusInputs :
        /\ Handled(s) <=> s \in UpStatuses \cup {"down"}
        /\ Ready(s) <=> s \in ReadyStatuses
        /\ Up(s) <=> (Handled(s) /\ s # "down")
        /\ Down(s) <=> s = "down"
        /\ RequiresBypass(s) <=> s \in InhibitedStatuses

\* the Instance holds, after a Stop, a status that no predicate holds of
C17_Witness ==
    /\ Did("Stop")
    /\ inst.Status = "starting"
    /\ ~Handled(inst.Status)
    /\ ~Up(inst.Status)
    /\ ~Down(inst.Status)

\* C18: of every status string, Ready implies Up, Down implies neither Up
\* nor Ready, and exactly one of Up, Down and not Handled holds.
C18_StatusClassesPartition ==
    \A s \in StatusInputs :
        /\ Ready(s) => Up(s)
        /\ Down(s) => (~Up(s) /\ ~Ready(s))
        /\ Up(s) \/ Down(s) \/ ~Handled(s)
        /\ ~(Up(s) /\ Down(s))
        /\ ~(Up(s) /\ ~Handled(s))
        /\ ~(Down(s) /\ ~Handled(s))

\* the Instance holds, after a Start, a status that is up and not ready
C18_Witness ==
    /\ Did("Start")
    /\ inst.Status = "sign-on inhibited"
    /\ Up(inst.Status)
    /\ ~Ready(inst.Status)
    /\ ~Down(inst.Status)
    /\ Handled(inst.Status)

\* s is a decimal integer: digits, after a sign or without one
IsDecimal(s) ==
    /\ s # ""
    /\ LET body == IF Char(s, 1) \in {"+", "-"} THEN From(s, 2) ELSE s
       IN  body # "" /\ \A k \in 1..Len(body) : Char(body, k) \in DigitSet

\* the fields of the record the last call was given, the first being field 0
Field(k) == SplitScan(last.r.qlist, "^")[k + 1]
NFields == Len(SplitScan(last.r.qlist, "^"))

DidParse == Did("UpdateFromQList") \/ Did("InstanceFromQList")

\* C19: UpdateFromQList and InstanceFromQList return no error exactly when
\* the record has 8 fields or more and its fields 5, 6 and 7 are decimal
\* integers; and when InstanceFromQList returns an error it returns no
\* Instance.
C19_RecordAcceptedIffPortsParse ==
    /\ DidParse =>
          (last.r.err.nil <=>
              (NFields >= 8 /\ IsDecimal(Field(5)) /\ IsDecimal(Field(6))
                 /\ IsDecimal(Field(7))))
    /\ Did("InstanceFromQList") => (last.r.nil <=> ~last.r.err.nil)

\* InstanceFromQList was given a record whose last port is empty and
\* returned an error and no Instance
C19_Witness ==
    /\ Did("InstanceFromQList")
    /\ last.r.qlist = "I^/d^1^down^c^1^2^"
    /\ ~last.r.err.nil
    /\ last.r.nil

\* InstanceFromQList accepted a record of 8 to 13 fields
ParsedFresh ==
    /\ Did("InstanceFromQList")
    /\ last.r.err.nil
    /\ NFields \in 8..13

\* the value of product_info.name in the parameters file, "" without one
ProductInFile ==
    IF \E e \in paramsFile.pi : e.Group = "product_info" /\ e.Name = "name"
                                  /\ Len(e.Values) = 1
    THEN (CHOOSE e \in paramsFile.pi :
              e.Group = "product_info" /\ e.Name = "name").Values[1]
    ELSE ""

\* State, the mirror fields and DataDirectory of a fresh Instance are those
\* of the record, "" for a mirror field the record does not have
RecordOptionalFields ==
    /\ inst.State = IF NFields = 8 THEN "ok" ELSE Field(8)
    /\ inst.MirrorMemberType = IF NFields >= 11 THEN Field(10) ELSE ""
    /\ inst.MirrorStatus = IF NFields >= 12 THEN Field(11) ELSE ""
    /\ inst.DataDirectory =
          IF NFields >= 13 /\ Field(12) # "" THEN Field(12) ELSE Field(1)
    /\ inst.Directory = Field(1)

\* C20 as stated: on a fresh Instance made of an accepted record of 8 to 13
\* fields the optional attributes are those of the record, Product is the
\* product field 9 names, and an attribute whose field is absent, Product
\* among them, has its zero value (Cache for Product).
C20_AsStated ==
    ParsedFresh =>
        /\ RecordOptionalFields
        /\ inst.Product = IF NFields >= 10 THEN ParseProduct(Field(9)) ELSE Cache

\* C20: on a fresh Instance made of an accepted record of 8 to 13 fields,
\* State is "ok" for 8 fields and field 8 otherwise, MirrorMemberType is
\* field 10 and MirrorStatus field 11 when present and "" when absent,
\* DataDirectory is a non-empty field 12 and Directory otherwise, and
\* Product is the product a non-empty field 9 names; with field 9 absent or
\* empty Product is the product product_info.name of the parameters file
\* names, Cache when the file cannot be read or names none.
C20_FieldMapping ==
    ParsedFresh =>
        /\ RecordOptionalFields
        /\ inst.Product =
              IF NFields >= 10 /\ Field(9) # "" THEN ParseProduct(Field(9))
              ELSE ParseProduct(ProductInFile)

\* an 8-field record made a fresh Instance whose Product is the one the
\* parameters file names, not the zero value
C20_Witness ==
    /\ ParsedFresh
    /\ NFields = 8
    /\ inst.State = "ok"
    /\ ProductInFile = "Ensemble"
    /\ inst.Product = Ensemble
    /\ inst.MirrorMemberType = ""

\* the fields of an Instance a record gives it
RecordFields(i) ==
    <<i.Name, i.Directory, i.DataDirectory, i.Version, i.Status, i.Activity,
      i.CPFFileName, i.SuperServerPort, i.WebServerPort, i.JDBCPort, i.State,
      i.Product, i.MirrorMemberType, i.MirrorStatus>>

\* C21: after UpdateFromQList accepted a record on an Instance, every field
\* a record gives is what InstanceFromQList makes of that record alone; no
\* value of the Instance as it was is left.
C21_ReparseOverwrites ==
    (Did("UpdateFromQList") /\ last.r.err.nil) =>
        RecordFields(inst) = RecordFields(InstanceFromQList(paramsFile, last.r.qlist).inst)

\* a parse call accepted the record it was given
Accepted == DidParse /\ last.r.err.nil

\* the place of the first comma of s, Len(s) + 1 without one
FirstComma(s) ==
    IF \E k \in 1..Len(s) : Char(s, k) = ","
    THEN CHOOSE k \in 1..Len(s) :
             Char(s, k) = "," /\ \A j \in 1..(k - 1) : Char(s, j) # ","
    ELSE Len(s) + 1

\* C22: the status of an accepted record is its status field up to the
\* first comma, in lower case, and the activity is all that follows that
\* comma, later commas included, without the white space around it; the
\* activity is empty when the field has no comma.
C22_StatusSplitAtFirstComma ==
    Accepted =>
        LET f == Field(3)
            k == FirstComma(f)
        IN  /\ inst.Status = ToLower(SubSeq(f, 1, k - 1))
            /\ \A j \in 1..Len(inst.Status) : Char(inst.Status, j) \notin UpperSet \cup {","}
            /\ inst.Activity = IF k > Len(f) THEN "" ELSE TrimSpace(From(f, k + 1))
            /\ inst.Activity # "" =>
                  /\ ~IsSpace(Char(inst.Activity, 1))
                  /\ ~IsSpace(Char(inst.Activity, Len(inst.Activity)))

\* a record whose status field has capitals and two commas was accepted
C22_Witness ==
    /\ Accepted
    /\ Field(3) = "Down,a,b"
    /\ inst.Status = "down"
    /\ inst.Activity = "a,b"

\* the five statuses the code knows
RecognizedStatuses ==
    {"running", "sign-on inhibited", "sign-on inhibited:primary transition",
     "down", "running on node ? (cache.ids missing)"}

\* the status token of the record of the last call, in lower case
StatusToken == ToLower(SubSeq(Field(3), 1, FirstComma(Field(3)) - 1))

\* a parse call accepted a record whose status is not one of the five
AcceptedUnrecognized == Accepted /\ StatusToken \notin RecognizedStatuses

\* C23 as stated: after a record whose status token is not one of the five
\* recognized statuses was parsed, the status of the Instance is the blank
\* (unknown) status.
C23_AsStated == AcceptedUnrecognized => inst.Status = InstanceStatusUnknown

\* C23: after a record whose status token is not one of the five
\* recognized statuses was parsed, the status of the Instance is that token
\* in lower case, and it is neither handled, up, ready nor down, as the
\* blank status is.
C23_UnrecognizedStatusKeptUnhandled ==
    AcceptedUnrecognized =>
        /\ inst.Status = StatusToken
        /\ ~Handled(inst.Status) /\ ~Up(inst.Status)
        /\ ~Ready(inst.Status) /\ ~Down(inst.Status)
        /\ Handled(inst.Status) = Handled(InstanceStatusUnknown)

\* a record with the status "Starting" was accepted and the Instance holds
\* "starting"
C23_Witness ==
    /\ AcceptedUnrecognized
    /\ Field(3) = "Starting, soon"
    /\ inst.Status = "starting"
    /\ inst.Activity = "soon"

\* the number a decimal integer of at most 9 digits stands for
NumberOf(s) ==
    IF Char(s, 1) = "-" THEN 0 - DigitsValue(From(s, 2), 0)
    ELSE IF Char(s, 1) = "+" THEN DigitsValue(From(s, 2), 0)
    ELSE DigitsValue(s, 0)

\* C24: in every Instance a parse call made of an accepted record the name
\* is not empty and the three ports are the numbers fields 5, 6 and 7 of
\* the record stand for.
C24_NameAndPortsOfParsed ==
    Accepted =>
        /\ inst.Name # ""
        /\ inst.SuperServerPort = NumberOf(Field(5))
        /\ inst.WebServerPort = NumberOf(Field(6))
        /\ inst.JDBCPort = NumberOf(Field(7))

\* LoadParametersISC returned a store, which the caller may have looked
\* into since
Loaded == (Did("LoadParametersISC") \/ Did("Value")) /\ ~last.r.nil

\* the lines of the text given that are not blank
ParamLines == SelectSeq(ScanLines(last.r.text), LAMBDA t : TrimSpace(t) # "")

\* the values of the lines with this group and name, in the order of the
\* lines
RECURSIVE ValuesInOrder(_, _, _)
ValuesInOrder(lines, group, name) ==
    IF lines = <<>> THEN <<>>
    ELSE With(FindStringSubmatch(Head(lines)), LAMBDA m :
             (IF m.group = group /\ m.name = name THEN <<m.value>> ELSE <<>>)
                 \o ValuesInOrder(Tail(lines), group, name))

\* C25: the store LoadParametersISC returns has one entry for each group
\* and name of a line, holding the values of the lines with that group and
\* name in the order of the lines, one value for a key on one line only;
\* Value returns the only value Values finds and "" when Values finds
\* several or none, and Values finds none when the group or the name is
\* not in the store.
C25_RepeatedKeysInOrder ==
    /\ Loaded =>
          /\ \A e \in last.r.pi :
                /\ e.Values = ValuesInOrder(ParamLines, e.Group, e.Name)
                /\ Len(e.Values) >= 1
                /\ \A f \in last.r.pi : (f.Group = e.Group /\ f.Name = e.Name) => f = e
          /\ \A k \in 1..Len(ParamLines) :
                \E e \in last.r.pi :
                    /\ e.Group = FindStringSubmatch(ParamLines[k]).group
                    /\ e.Name = FindStringSubmatch(ParamLines[k]).name
    /\ Did("Value") =>
          /\ last.r.value =
                IF Len(last.r.values) = 1 THEN last.r.values[1] ELSE ""
          /\ Len(last.r.ids) = 2 =>
                IF \E e \in last.r.pi : e.Group = last.r.ids[1] /\ e.Name = last.r.ids[2]
                THEN \E e \in last.r.pi :
                        /\ e.Group = last.r.ids[1] /\ e.Name = last.r.ids[2]
                        /\ last.r.values = e.Values
                ELSE last.r.values = <<>> /\ last.r.value = ""

\* a key on three lines has its three values in the order of the lines and
\* Value gives "" for it
C25_Witness ==
    /\ Did("Value")
    /\ last.r.ids = <<"dup">>
    /\ last.r.values = <<"1", "2", "3">>
    /\ last.r.value = ""

\* t has a colon with something before it: the least a line needs to be of
\* the form [group.]name: value
HasKeyAndColon(t) == \E c \in 2..Len(t) : Char(t, c) = ":"

\* the lines of the text given that are not blank and have no key and colon
OffendingLines == SelectSeq(ParamLines, LAMBDA t : ~HasKeyAndColon(t))

\* C26: LoadParametersISC passes over the lines of white space only; it
\* fails exactly when a line that is not blank is not of the form
\* [group.]name: value, the error then holds the first such line as it is
\* and no store is returned, whatever the lines before it were.
C26_MalformedLineFailsLoad ==
    Did("LoadParametersISC") =>
        /\ last.r.err.nil <=> OffendingLines = <<>>
        /\ ~last.r.err.nil =>
              /\ last.r.nil
              /\ last.r.pi = {}
              /\ last.r.err.text = "malformed parameter line: " \o OffendingLines[1]
              /\ Contains(last.r.err.text, OffendingLines[1])
        /\ last.r.err.nil => ~last.r.nil

\* a text with blank lines and two good lines before the line "nope" was
\* refused
C26_Witness ==
    /\ Did("LoadParametersISC")
    /\ last.r.text = "\nng: v\ng1.n1: a\nnope\n\n"
    /\ last.r.err.text = "malformed parameter line: nope"
    /\ last.r.nil

\* s has no character c
Without(s, c) == \A k \in 1..Len(s) : Char(s, k) # c

\* the line t is the key of the entry e, a colon and one of its values,
\* after some of the white space t starts with
LineOfEntry(t, e) ==
    \E w \in 0..LeadingSpaces(t) :
        LET key == (IF e.Group # "" THEN e.Group \o "." ELSE "") \o e.Name \o ":"
            s == From(t, w + 1)
        IN  /\ Len(s) >= Len(key)
            /\ SubSeq(s, 1, Len(key)) = key
            /\ Without(From(s, Len(key) + 1), ":")
            /\ \E k \in 1..Len(e.Values) : e.Values[k] = TrimLeft(From(s, Len(key) + 1))

\* C27 as stated: the entry of every line has for group the text before
\* the last '.' before the colon, for name the text between that '.' and
\* the colon, and the empty group when the key has no '.'.
C27_AsStated ==
    Loaded =>
        \A k \in 1..Len(ParamLines) :
            LET m == matchAfterLastDot(ParamLines[k], LeadingSpaces(ParamLines[k]))
            IN  m.ok => \E e \in last.r.pi : e.Group = m.group /\ e.Name = m.name

\* C27: the entry of every line has for group the text before the first
\* '.' of the line and for name the text between that '.' and the last
\* ':', further dots included; the group is empty when the line has no '.',
\* starts with it, or has no ':' later than the character after it.
C27_GroupEndsAtFirstDot ==
    Loaded =>
        /\ \A e \in last.r.pi : Without(e.Group, ".") /\ e.Name # ""
        /\ \A k \in 1..Len(ParamLines) :
              \E e \in last.r.pi :
                  /\ LineOfEntry(ParamLines[k], e)
                  /\ e.Group = "" =>
                        LET s == TrimLeft(ParamLines[k])
                            d == IndexFrom(s, ".", 1)
                        IN  d <= 1 \/ Without(From(s, d + 2), ":")

\* the line "a.b.c: v" is stored in the group "a" under the name "b.c"
C27_Witness ==
    /\ Loaded
    /\ last.r.text = "a.b.c: v\n"
    /\ last.r.pi = {[Group |-> "a", Name |-> "b.c", Values |-> <<"v">>]}

\* the glob of the last call and its parts around the first **
Glob == last.r.glob
Markers == Len(SplitScan(Glob, "**")) - 1
BeforeMarker == SubSeq(Glob, 1, IndexFrom(Glob, "**", 1) - 1)
AfterMarker == From(Glob, IndexFrom(Glob, "**", 1) + 2)

\* the faults of the glob of the last call, each as the error it has
GlobFaults ==
    (IF Markers >= 2 THEN {TooManyRecursiveDirsErr} ELSE {})
    \cup (IF Markers = 1 /\ ~HasPrefix(AfterMarker, "/")
          THEN {MissingPathSeparatorErr} ELSE {})
    \cup (IF Markers = 1 /\ \E j \in 2..Len(AfterMarker) : Char(AfterMarker, j) = "/"
          THEN {PathAfterRecursiveDirsErr} ELSE {})
    \cup (IF \/ Markers = 1 /\ ~Without(BeforeMarker, "*")
             \/ Markers = 0 /\ ~Without(SubSeq(Glob, 1, LastSlash(Glob, Len(Glob))), "*")
          THEN {WildcardInDirectoryErr} ELSE {})

\* C28: NewImportDescription returns the error of a fault of the glob (two
\* ** or more, a '*' in the directory, a ** with no '/' right after it, a
\* ** with a directory after it) when the glob has one, the four errors
\* being different; it accepts every other glob, Recursive being true
\* exactly for a glob with a **, and the directory of a bare file name is
\* the working directory.
C28_GlobValidation ==
    Did("NewImportDescription") =>
        /\ last.r.err.nil <=> GlobFaults = {}
        /\ ~last.r.err.nil => last.r.err \in GlobFaults /\ last.r.id.nil
        /\ Cardinality({TooManyRecursiveDirsErr, MissingPathSeparatorErr,
                        PathAfterRecursiveDirsErr, WildcardInDirectoryErr}) = 4
        /\ last.r.err.nil =>
              /\ ~last.r.id.nil
              /\ last.r.id.Recursive <=> Markers = 1
              /\ (Without(Glob, "/") /\ Markers = 0) => last.r.id.Dir = last.r.cwd
              /\ (Glob # "" /\ Without(Glob, "/") /\ Markers = 0) =>
                    last.r.id.FilePattern = Glob

\* a glob with a directory after its ** was refused with the error of that
\* fault
C28_Witness ==
    /\ Did("NewImportDescription")
    /\ Glob = "/a/**/b/c.xml"
    /\ last.r.err = PathAfterRecursiveDirsErr
    /\ last.r.id.nil

\* the product each product string stands for, Cache for any other string
ProductNamed(s) ==
    CASE s = "Cache" -> Cache
      [] s = "Ensemble" -> Ensemble
      [] s \in {"IRIS", "IRISHealth", "IDP"} -> Iris
      [] OTHER -> Cache

\* C29: a record is never refused for its product string, and the product
\* of an Instance made of a record with a product string is Cache for
\* "Cache", Ensemble for "Ensemble", Iris for "IRIS", "IRISHealth" and
\* "IDP", and Cache for any other string.
C29_ProductOfString ==
    /\ (DidParse /\ NFields >= 8 /\ IsDecimal(Field(5)) /\ IsDecimal(Field(6))
          /\ IsDecimal(Field(7))) => last.r.err.nil
    /\ (Accepted /\ NFields >= 10 /\ Field(9) # "") =>
          inst.Product = ProductNamed(Field(9))

\* the record q has 8 fields or more and decimal ports
ValidRecord(q) ==
    LET qs == SplitScan(q, "^")
    IN  Len(qs) >= 8 /\ IsDecimal(qs[6]) /\ IsDecimal(qs[7]) /\ IsDecimal(qs[8])

\* C30: Update returns no error on an Instance made of a valid record when
\* the parameters file of the instance does not exist, the qlist tool
\* succeeding and printing a valid record.
C30_UpdateWithoutParametersFile ==
    (/\ Did("Update")
     /\ last.before.Directory # ""
     /\ ~paramsFile.exists
     /\ qlistTool.err.nil
     /\ ValidRecord(qlistTool.out)) => last.r.err.nil


(***************************************************************************)
(* Instances and the package-level path variables.                         *)
(***************************************************************************)
\* the session command string of an Instance that runs in isolation, where
\* no setter of the package has been called
IsolatedSessionString ==
    IF last.r.sessionPath # "" THEN last.r.sessionPath
    ELSE IF inst.Product = Iris THEN defaultIrisSessionCommand ELSE defaultCSessionPath

\* the package-level variable a SessionCommand call on the Instance reads
\* when the Instance has no SessionPath of its own
SessionVariable == IF inst.Product = Iris THEN "IrisSessionCommand" ELSE "CSessionPath"

\* the session command string of the last SessionCommand call, given the
\* package-level variables as they are now
SharedSessionString ==
    IF last.r.sessionPath # "" THEN last.r.sessionPath ELSE pkg[SessionVariable]

\* the command SessionCommand builds from a session command string
SessionCmdOf(s) ==
    [path |-> Head(SplitScan(s, " ")),
     args |-> Tail(SplitScan(s, " ")) \o <<inst.Name>>
                \o (IF last.r.namespace # "" THEN <<"-U", last.r.namespace>> ELSE <<>>)
                \o (IF last.r.command # "" THEN <<last.r.command>> ELSE <<>>)]

SettingValues(name) ==
    IF \E e \in paramsFile.pi : e.Group = "security_settings" /\ e.Name = name
    THEN (CHOOSE e \in paramsFile.pi :
              e.Group = "security_settings" /\ e.Name = name).Values
    ELSE <<>>

\* the key holds exactly one value, and it is not empty
HoldsOne(name) == Len(SettingValues(name)) = 1 /\ SettingValues(name)[1] # ""

\* the key is absent, or its only value is empty
AbsentOrEmpty(name) == SettingValues(name) \in {<<>>, <<"">>}

\* the kind of key the last call reads: those of the manager for
\* DetermineManager, those of the owner of the product for DetermineOwner
KeyKind ==
    IF last.op = "DetermineManager" THEN "manager"
    ELSE IF inst.Product = Iris THEN "iris" ELSE "cache"

\* C32: DetermineManager reads manager_user and manager_group, and
\* DetermineOwner reads iris_user and iris_group on an Iris Instance and
\* cache_user and cache_group on any other; the call returns the two values
\* without error when each key holds exactly one non-empty value, and
\* returns an error with no user and no group when the file cannot be read
\* or when the user key or the group key is absent or empty.
C32_ManagerAndOwnerKeys ==
    (Did("DetermineManager") \/ Did("DetermineOwner")) =>
        /\ (paramsFile.exists /\ HoldsOne(KeyKind \o "_user") /\ HoldsOne(KeyKind \o "_group"))
              => /\ last.r.err.nil
                 /\ last.r.user = SettingValues(KeyKind \o "_user")[1]
                 /\ last.r.group = SettingValues(KeyKind \o "_group")[1]
        /\ (\/ ~paramsFile.exists
            \/ AbsentOrEmpty(KeyKind \o "_user")
            \/ AbsentOrEmpty(KeyKind \o "_group"))
              => /\ ~last.r.err.nil
                 /\ last.r.user = ""
                 /\ last.r.group = ""

\* DetermineOwner on an Iris Instance whose file names an Iris owner and a
\* different Cache owner, but no manager group
C32_Witness ==
    /\ Did("DetermineOwner")
    /\ inst.Product = Iris
    /\ HoldsOne("cache_user") /\ HoldsOne("cache_group")
    /\ AbsentOrEmpty("manager_group")
    /\ last.r.err.nil
    /\ last.r.user = "iris_user-u"
    /\ last.r.group = "iris_group-g"


(***************************************************************************)
(* The databases of the CPF file.                                          *)
(***************************************************************************)
\* the lines of the CPF file
CpfLines == ScanLines(cpf.data)

\* the number of the [Databases] header line, or 0 when there is none
HeaderLine ==
    IF \E k \in 1..Len(CpfLines) : CpfLines[k] = "[Databases]"
    THEN CHOOSE k \in 1..Len(CpfLines) :
             /\ CpfLines[k] = "[Databases]"
             /\ \A j \in 1..(k - 1) : CpfLines[j] # "[Databases]"
    ELSE 0

\* the numbers of the lines between the header and the first blank line
\* after it
SectionLines ==
    IF HeaderLine = 0 THEN {}
    ELSE {k \in (HeaderLine + 1)..Len(CpfLines) :
              \A j \in (HeaderLine + 1)..k : TrimSpace(CpfLines[j]) # ""}

\* the left-hand sides of the key=value lines of the section
SectionKeys ==
    {SplitN2(CpfLines[k], "=")[1] : k \in {j \in SectionLines : Contains(CpfLines[j], "=")}}

\* C33: when DatInfo returns without error, the keys of the entries it
\* returns are the left-hand sides of the key=value lines between the
\* [Databases] header line and the first blank line after it, and no
\* others.
C33_DatInfoEntries ==
    (Did("DatInfo") /\ last.r.err.nil) =>
        {e.key : e \in last.r.dats} = SectionKeys


\* the credential of the manager could be determined for the last call
ManagerKnown == managerSysProc(last.before, paramsFile).err.nil

\* C34: one Start call decides from the status the Instance holds when it
\* is called: it issues the start action once, and nothing else, when that
\* status is down and the credential of the manager can be determined, and
\* issues no subprocess otherwise; it calls Update at most once, and not
\* at all when the action was called for and was not run or failed.
C34_StartActsOnce ==
    Did("Start") =>
        /\ Len(last.r.cmds) = (IF last.before.Status = "down" /\ ManagerKnown THEN 1 ELSE 0)
        /\ \A k \in 1..Len(last.r.cmds) :
               last.r.cmds[k].args = <<"start", last.before.Name, "quietly">>
        /\ last.r.updates \in {0, 1}
        /\ last.r.step = "failed" => last.r.updates = 0

\* Start on a down instance ran the action once and re-queried once
C34_Witness ==
    /\ Did("Start")
    /\ last.before.Status = "down"
    /\ Len(last.r.cmds) = 1
    /\ last.r.step = "ran"
    /\ last.r.updates = 1

\* C34 as stated, for the calls made beside a parameters file that can be
\* read: the start action is issued exactly once whenever the status held
\* at the call is down
C34_AsStated ==
    (Did("Start") /\ paramsFile.exists) =>
        /\ Len(last.r.cmds) = (IF last.before.Status = "down" THEN 1 ELSE 0)
        /\ last.r.updates \in {0, 1}


\* C35: WaitForReady calls Update once for each timer tick and never
\* before one: while the tick count is below its bound, the number of
\* Update calls equals the number of ticks, less the one in progress; and a
\* call that returns before the first tick returns the error of its
\* context without having called Update, leaving the Instance as it was,
\* whatever its status.
C35_OneRequeryPerTick ==
    last.op = "WaitForReady" =>
        /\ last.r.updates <= last.r.ticks
        /\ last.r.ticks < MaxPolls =>
              last.r.ticks = last.r.updates + (IF pc = "update" THEN 1 ELSE 0)
        /\ (pc = "idle" /\ last.r.ticks = 0) =>
              /\ ctx # "live"
              /\ ~last.r.err.nil
              /\ last.r.err.text = (IF ctx = "canceled" THEN "context canceled"
                                    ELSE "context deadline exceeded")
              /\ last.r.updates = 0
              /\ inst.Status = last.before.Status

\* the deadline passed before the first tick of a call on an instance that
\* the tool reports running: the call returned the deadline error with no
\* tick and no Update
C35_Witness ==
    /\ Did("WaitForReady")
    /\ ctx = "deadline"
    /\ last.r.ticks = 0
    /\ last.r.updates = 0
    /\ last.r.err.text = "context deadline exceeded"
    /\ ToolStatus(qlistTool) \in ReadyStatuses
    /\ inst.Status \notin ReadyStatuses


\* the credential of the session commands built from the Instance as it is
SessionIdentity == SessionCommand(inst, "USER", "do ^X").attr

\* C36: when ExecuteAsUser(u) has returned success, the session commands
\* built from the Instance run as u: they carry the uid and gid of u, or
\* they carry no credential and the process is u.
C36_SessionsRunAsRequestedUser ==
    (Did("ExecuteAsUser") /\ last.r.err.nil) =>
        \/ /\ SessionIdentity.set
           /\ SessionIdentity.Uid = lookupUser(last.r.user).uid
           /\ SessionIdentity.Gid = lookupUser(last.r.user).gid
        \/ /\ ~SessionIdentity.set
           /\ procUser = last.r.user


\* C37, for the calls made beside a parameters file that names the
\* manager: when WaitForReady returns success, the last Update of the call
\* returned no error and left the Instance with a ready status.
C37_SuccessNeedsErrorFreeRequery ==
    (Did("WaitForReady") /\ last.r.err.nil /\ managerSysProc(inst, paramsFile).err.nil) =>
        /\ last.r.updates >= 1
        /\ ~last.r.failed
        /\ inst.Status \in ReadyStatuses


\* C38: when UpdateFromQList returns an error, the Instance is as it was
\* before the call.
C38_RejectedRecordChangesNothing ==
    (Did("UpdateFromQList") /\ ~last.r.err.nil) => inst = last.r.prior


\* C39: Values asked with the full key of an entry of the store returns
\* the values of that entry.
C39_ValuesOfKeyRoundTrips ==
    (Did("Value") /\ Len(last.r.ids) = 1) =>
        \A e \in last.r.pi : Key(e) = last.r.ids[1] => last.r.values = e.Values


\* C40: when ToggleZSTU has returned, the temporary file it created is gone
\* and no handle it opened is left open.
C40_ToggleLeavesNothingBehind ==
    Did("ToggleZSTU") => (last.r.tmp \notin tmpFiles /\ last.r.open = {})

====
